---- MODULE Spec2Model ----
(***************************************************************************)
(* A model of the planner core of miniature-memory: the lane scheduler and *)
(* task scorer (src/src/lib/planner/scheduler.ts), the unit mastery        *)
(* aggregator (src/src/lib/analytics/mastery.ts) and the readiness         *)
(* aggregator (src/src/lib/analytics/readiness.ts).                        *)
(*                                                                         *)
(* Numbers.  Minutes, counts and times are integers.  Scores that the code *)
(* rounds to two decimals are kept in hundredths (Scale = 100), and the    *)
(* unrounded score they are rounded from in ten-thousandths of a point.    *)
(* Times are in hours; a day is DayHours of them (the code divides a       *)
(* millisecond difference by 1000*60*60*24).                               *)
(***************************************************************************)
EXTENDS Integers, Sequences, FiniteSets, TLC

VARIABLES
    \* scheduleTasks (scheduler.ts 56-155)
    scoredTasks,                \* the argument: ScoredTask[]
    targetStudyMinutesPerDay,   \* the argument: the daily target
    lanes,                      \* const lanes: PlannedLane[] (three lanes)
    examBuildTasks,             \* const examBuildTasks (spliced by the overflow fill)
    plan,                       \* the returned DailyPlan, NoPlan before the return
    \* scoreTasks (scheduler.ts 391-399)
    tasks,                      \* the argument: Task[]
    context,                    \* the argument: ScoringContext
    scored,                     \* the returned ScoredTask[]
    \* the rows calculateUnitMastery and calculateReadiness read
    unitTasks,                  \* tasks of one unit: how many in each status
    attemptRows,                \* question_attempts: how many correct, incorrect
    courseRow,                  \* the course: Null, or Some(row)
    unitRows,                   \* course_units of the course
    incompleteTasks,            \* estimated_minutes of the course's open tasks
    focusSessions,              \* focus_sessions of the user
    now,                        \* Date.now(), in hours
    ret,                        \* what the call returned
    \* what generateDailyPlan reads and writes besides tasks and context
    authUser,                   \* supabase.auth.getUser(): is there a user
    userProfile,                \* the users row: Null, or Some(row)
    plannerRuns,                \* the planner_runs rows, oldest first
    \* the tables of the practice and mastery actions
    courseUnits,                \* course_units: unit id -> row
    taskTable,                  \* tasks: the rows, oldest first
    attemptTable,               \* question_attempts: unit id -> how many rows
                                \*   with is_correct true, false
    errorLogItems,              \* error_log_items: the set of rows
    calls,                      \* the logQuestionAttempt calls: id -> frame
    \* calculateAllReadiness
    courseTable,                \* courses: course id -> Null, or Some(row)
    courseIds,                  \* the ids the first query returned
    cursor,                     \* the position of the for loop in courseIds
    readinessScores,            \* the Map being filled
    consoleErrors,              \* the course ids console.error reported
    \* the position of the call that is running
    pc

schedulerVars ==
    <<scoredTasks, targetStudyMinutesPerDay, lanes, examBuildTasks, plan>>

scorerVars == <<tasks, context, scored>>

dbVars ==
    <<unitTasks, attemptRows, courseRow, unitRows, incompleteTasks,
      focusSessions, now>>

analyticsVars == <<dbVars, ret>>

plannerVars == <<authUser, userProfile, plannerRuns>>

practiceVars == <<courseUnits, taskTable, attemptTable, errorLogItems, calls>>

allReadinessVars ==
    <<courseTable, courseIds, cursor, readinessScores, consoleErrors>>

\* the state of the server actions
appVars == <<plannerVars, practiceVars, allReadinessVars>>

vars == <<schedulerVars, scorerVars, analyticsVars, appVars, pc>>

----------------------------------------------------------------------------
(* Bounds of the model *)

\* longest list of scored tasks handed to scheduleTasks
MaxTasks == 6

\* longest list of tasks handed to scoreTasks
MaxScoreTasks == 4

\* a due date is at most this many days after day 0
MaxDueDays == 7

\* a unit was last studied at most this many days before day 0
MaxSinceDays == 10

\* the largest daily target; the onboarding form offers 30 to 240 minutes
MaxTarget == 240

\* most tasks of a unit, and most question attempts of a unit
MaxUnitRows == 8

\* most logQuestionAttempt calls in a history
MaxLoggedAttempts == 4

\* the clock of the practice actions runs to this day
MaxPracticeDays == 8

\* most logFocusSession calls in a history
MaxSessions == 2

\* the clock of the study actions runs to this day
MaxStudyDays == 1

\* most logQuestionAttempt calls in a history with study sessions
MaxStudyAttempts == 1

\* longest task list run through scoreTasks, scheduleTasks and validatePlan
MaxPipelineTasks == 3

\* most courses of the user
MaxCourses == 3

\* most tasks in the tasks table before the practice actions run
MaxUnitTasks == 2

\* most question attempts of a unit before updateUnitMastery runs
MaxStoredAttempts == 2

\* the clock of the mastery actions runs to this day
MaxClockDays == 1

\* most incomplete tasks generateDailyPlan is run on
MaxPlanTasks == 2

\* most units of a course, and most question attempts of a course
MaxUnits == 4

MaxAttempts == 3

----------------------------------------------------------------------------
(* Program constants *)

\* Math.round(x * 100) / 100: two decimals
Scale == 100

\* if (lane.tasks.length >= 5) break
LaneCap == 5

\* .filter((t) => t.urgencyScore > 50)
UrgentOver == 50

\* (1000 * 60 * 60 * 24) milliseconds, in hours
DayHours == 24

\* return 10: the urgency of a task with no due date
NoDueDateUrgency == 10

\* baseImportance
BaseAssignmentWork == 70

BaseExamBuild == 50

BaseTimedPractice == 30

\* if (daysUntilExam <= 30 && daysUntilExam > 0)
ExamWindowDays == 30

\* const examBonus = 30 * (1 - daysUntilExam / 30)
ExamBonusMax == 30

\* calculateWeaknessBonus: the mastery steps and their bonuses
MasteryStruggling == 30

MasteryDeveloping == 50

MasteryProgressing == 70

WeaknessStruggling == 50

WeaknessDeveloping == 30

WeaknessProgressing == 15

\* calculateRecencyBonus
RecencyNoUnit == 15

RecencyFull == 25

RecencyRampFrom == 2

RecencyRampTo == 7

RecencyRampBase == 10

\* the weights of scoreTask, in hundredths
UrgencyWeight == 40

ImportanceWeight == 35

WeaknessWeight == 15

RecencyWeight == 10

\* calculateUnitMastery: mastery += taskCompletionRate * 0.4, in hundredths
TaskShare == 40

\* mastery += questionAccuracy * 0.6, in hundredths
QuestionShare == 60

\* calculateCoverage: (u.mastery_score || 0) >= 50
ProficientFrom == 50

\* calculateRecency: fourteenDaysAgo.getDate() - 14
RecentDays == 14

\* calculatePacing: the last 30 days of focus sessions
SessionWindowDays == 30

\* Math.min(30, recentSessions.length)
SessionDivisorCap == 30

\* avgDailyMinutes: default to 1 hour if no data
DefaultDailyMinutes == 60

\* the weights of calculateReadiness, in hundredths
CoverageWeight == 25

AccuracyWeight == 35

RecencyShare == 20

PacingWeight == 20

\* generateDailyPlan: userProfile?.target_study_minutes_per_day || 120
DefaultTarget == 120

\* logFocusSession: const baseXP = durationMinutes * 10
XpPerMinute == 10

\* logFocusSession: Math.floor(newTotalXP / 1000) + 1
XpPerLevel == 1000

\* checkAndCreateRemediationTask: recentErrors.length >= 3
RemediationThreshold == 3

\* sevenDaysAgo.setDate(sevenDaysAgo.getDate() - 7)
ErrorWindowDays == 7

\* the pacing scores
PacingWayAhead == 100

PacingAhead == 75

PacingOnTrack == 50

PacingBehind == 25

PacingFarBehind == 10

----------------------------------------------------------------------------
(* Generic helpers *)

Min(a, b) == IF a <= b THEN a ELSE b

Max(a, b) == IF a >= b THEN a ELSE b

\* Math.round of the non-negative rational n/d (d > 0): ties go up
RoundDiv(n, d) == (2 * n + d) \div (2 * d)

RECURSIVE SumMinutes(_)
SumMinutes(ts) ==
    IF ts = <<>> THEN 0 ELSE Head(ts).estimated_minutes + SumMinutes(Tail(ts))

\* all sequences over S of length at most n
SeqsUpTo(S, n) == UNION {[1..k -> S] : k \in 0..n}

----------------------------------------------------------------------------
(* scheduleTasks *)

NoPlan == [lanes |-> <<>>, totalMinutes |-> -1]

\* the mutant of calculateTimeBudgets: the products are rounded down
calculateTimeBudgetsFloor(target) ==
    [dueSoon       |-> (target * 65) \div 100,
     examBuild     |-> (target * 25) \div 100,
     timedPractice |-> (target * 10) \div 100]

\* calculateTimeBudgets: Math.round(target * 0.65 / 0.25 / 0.10).  For an
\* integer target >= 0 the double product rounds as the exact one does.
calculateTimeBudgets(target) ==
    [dueSoon       |-> RoundDiv(target * 65, 100),
     examBuild     |-> RoundDiv(target * 25, 100),
     timedPractice |-> RoundDiv(target * 10, 100)]

\* const lanes = [...]: three empty lanes at their budgets
InitialLanes(target) ==
    LET budgets == calculateTimeBudgets(target) IN
    << [name |-> "due_soon", tasks |-> <<>>, totalMinutes |-> 0,
        targetMinutes |-> budgets.dueSoon],
       [name |-> "exam_build", tasks |-> <<>>, totalMinutes |-> 0,
        targetMinutes |-> budgets.examBuild],
       [name |-> "timed_practice", tasks |-> <<>>, totalMinutes |-> 0,
        targetMinutes |-> budgets.timedPractice] >>

\* scoredTasks.filter((t) => t.task_type === type)
FilterType(ts, type) ==
    LET IsType(t) == t.task_type = type IN SelectSeq(ts, IsType)

\* the mutant of LaneFull: the cap is tested off by one
LaneFullOffByOne(lane) == Len(lane.tasks) > LaneCap

\* lane.tasks.length >= 5
LaneFull(lane) == Len(lane.tasks) >= LaneCap

\* the mutant of Fits: the running total is left out of the budget test
FitsTaskAlone(lane, task) ==
    10 * task.estimated_minutes <= 12 * lane.targetMinutes

\* lane.totalMinutes + task.estimated_minutes <= lane.targetMinutes * 1.2
\* (integer minutes: x <= t * 1.2 in doubles iff 10x <= 12t)
Fits(lane, task) ==
    10 * (lane.totalMinutes + task.estimated_minutes) <= 12 * lane.targetMinutes

\* lane.tasks.push(task); lane.totalMinutes += task.estimated_minutes
Admit(lane, task) ==
    [lane EXCEPT !.tasks = Append(@, task),
                 !.totalMinutes = @ + task.estimated_minutes]

\* the mutant of FillLane: the pass stops at the first task that does not fit
RECURSIVE FillLaneStopAtMisfit(_, _)
FillLaneStopAtMisfit(lane, pool) ==
    IF pool = <<>> \/ LaneFull(lane) THEN lane
    ELSE IF Fits(lane, Head(pool))
         THEN FillLaneStopAtMisfit(Admit(lane, Head(pool)), Tail(pool))
         ELSE lane

\* for (const task of pool) { if (full) break; if (fits) admit }
RECURSIVE FillLane(_, _)
FillLane(lane, pool) ==
    IF pool = <<>> \/ LaneFull(lane) THEN lane
    ELSE IF Fits(lane, Head(pool))
         THEN FillLane(Admit(lane, Head(pool)), Tail(pool))
         ELSE FillLane(lane, Tail(pool))

\* examBuildTasks.indexOf(task): 1-based, 0 when absent (the code's -1)
RECURSIVE IndexOfFrom(_, _, _)
IndexOfFrom(pool, task, i) ==
    IF i > Len(pool) THEN 0
    ELSE IF pool[i] = task THEN i
    ELSE IndexOfFrom(pool, task, i + 1)

IndexOf(pool, task) == IndexOfFrom(pool, task, 1)

\* pool.splice(i, 1), i as indexOf gave it: -1 removes the last element
Splice(pool, i) ==
    IF pool = <<>> THEN pool
    ELSE LET at == IF i = 0 THEN Len(pool) ELSE i IN
         SubSeq(pool, 1, at - 1) \o SubSeq(pool, at + 1, Len(pool))

\* the mutant of RemoveFromPool: the consumed task stays in the pool
RemoveFromPoolNoSplice(pool, task) == pool

\* examBuildTasks.splice(examBuildTasks.indexOf(task), 1)
RemoveFromPool(pool, task) == Splice(pool, IndexOf(pool, task))

\* the mutant of IsUrgent: an urgencyScore of 50 counts as urgent
IsUrgentInclusive(t) == t.urgencyScore >= UrgentOver * Scale

\* .filter((t) => t.urgencyScore > 50)
IsUrgent(t) == t.urgencyScore > UrgentOver * Scale

\* the mutant of urgentExamTasks: every urgent task is a candidate
urgentExamTasksNoSlice(lane, pool) == SelectSeq(pool, IsUrgent)

\* examBuildTasks.filter(urgent).slice(0, 5 - dueSoonLane.tasks.length)
urgentExamTasks(lane, pool) ==
    LET urgent == SelectSeq(pool, IsUrgent) IN
    SubSeq(urgent, 1, Min(Len(urgent), LaneCap - Len(lane.tasks)))

\* for (const task of urgentExamTasks) { if (fits) { admit; splice } }
\* returns the lane and the pool after the loop
RECURSIVE OverflowLoop(_, _, _)
OverflowLoop(lane, pool, urgent) ==
    IF urgent = <<>> THEN [lane |-> lane, pool |-> pool]
    ELSE IF Fits(lane, Head(urgent))
         THEN OverflowLoop(Admit(lane, Head(urgent)),
                           RemoveFromPool(pool, Head(urgent)), Tail(urgent))
         ELSE OverflowLoop(lane, pool, Tail(urgent))

\* if (dueSoonLane.tasks.length < 5) { ... }
OverflowFill(lane, pool) ==
    IF Len(lane.tasks) < LaneCap
    THEN OverflowLoop(lane, pool, urgentExamTasks(lane, pool))
    ELSE [lane |-> lane, pool |-> pool]

\* the mutant of InsertByWeakness: t goes before the elements that compare
\* equal to it
RECURSIVE InsertByWeaknessBeforeEqual(_, _)
InsertByWeaknessBeforeEqual(sorted, t) ==
    IF sorted = <<>> THEN <<t>>
    ELSE IF Head(sorted).weaknessBonus > t.weaknessBonus
         THEN <<Head(sorted)>> \o InsertByWeaknessBeforeEqual(Tail(sorted), t)
         ELSE <<t>> \o sorted

\* insert t into a list already sorted by weaknessBonus descending, after
\* every element that does not compare after it (Array.prototype.sort is
\* stable)
RECURSIVE InsertByWeakness(_, _)
InsertByWeakness(sorted, t) ==
    IF sorted = <<>> THEN <<t>>
    ELSE IF Head(sorted).weaknessBonus >= t.weaknessBonus
         THEN <<Head(sorted)>> \o InsertByWeakness(Tail(sorted), t)
         ELSE <<t>> \o sorted

RECURSIVE SortFrom(_, _)
SortFrom(sorted, rest) ==
    IF rest = <<>> THEN sorted
    ELSE SortFrom(InsertByWeakness(sorted, Head(rest)), Tail(rest))

\* [...examBuildTasks].sort((a, b) => b.weaknessBonus - a.weaknessBonus)
sortedExamBuild(pool) == SortFrom(<<>>, pool)

\* lanes.reduce((sum, lane) => sum + lane.totalMinutes, 0)
PlanTotal(ls) == ls[1].totalMinutes + ls[2].totalMinutes + ls[3].totalMinutes

\* the warnings of validatePlan: the message and the lane it names
Warning(message, lane) == [message |-> message, lane |-> lane]

PlanUnder == "Plan is significantly under your daily study goal."

PlanOver == "Plan exceeds your daily study goal by 50%+."

LaneEmpty == "lane is empty."

\* plan.lanes.reduce((sum, lane) => sum + lane.targetMinutes, 0)
targetTotal(p) ==
    p.lanes[1].targetMinutes + p.lanes[2].targetMinutes + p.lanes[3].targetMinutes

\* plan.lanes.forEach: a warning for every lane without tasks
RECURSIVE emptyLaneWarnings(_)
emptyLaneWarnings(ls) ==
    IF ls = <<>> THEN <<>>
    ELSE (IF Len(Head(ls).tasks) = 0
          THEN <<Warning(LaneEmpty, Head(ls).name)>> ELSE <<>>)
           \o emptyLaneWarnings(Tail(ls))

\* the mutant of validatePlan: the plan is over when it exceeds the goal
validatePlanOverAtGoal(p) ==
    (IF 2 * p.totalMinutes < targetTotal(p)
     THEN <<Warning(PlanUnder, "")>> ELSE <<>>)
      \o (IF p.totalMinutes > targetTotal(p)
          THEN <<Warning(PlanOver, "")>> ELSE <<>>)
      \o emptyLaneWarnings(p.lanes)

\* validatePlan(plan): actualTotal < targetTotal * 0.5, actualTotal >
\* targetTotal * 1.5, and the empty lanes
validatePlan(p) ==
    (IF 2 * p.totalMinutes < targetTotal(p)
     THEN <<Warning(PlanUnder, "")>> ELSE <<>>)
      \o (IF 2 * p.totalMinutes > 3 * targetTotal(p)
          THEN <<Warning(PlanOver, "")>> ELSE <<>>)
      \o emptyLaneWarnings(p.lanes)

(* The scored tasks the scheduler is run on.  scheduleTasks reads a task's *)
(* type, estimate, urgencyScore and weaknessBonus; the id is the position  *)
(* in the list, so ids are distinct.                                       *)
TaskKinds ==
    { [task_type |-> "assignment_work", estimated_minutes |-> 30,
       urgencyScore |-> 100 * Scale, weaknessBonus |-> 0],
      [task_type |-> "exam_build", estimated_minutes |-> 5,
       urgencyScore |-> 5647, weaknessBonus |-> 0],
      [task_type |-> "exam_build", estimated_minutes |-> 5,
       urgencyScore |-> 50 * Scale, weaknessBonus |-> 50 * Scale],
      [task_type |-> "exam_build", estimated_minutes |-> 30,
       urgencyScore |-> 10 * Scale, weaknessBonus |-> 30 * Scale],
      [task_type |-> "timed_practice", estimated_minutes |-> 5,
       urgencyScore |-> 10 * Scale, weaknessBonus |-> 0] }

\* the tasks of the lists that exercise the overflow fill: a short
\* assignment, and a long and a short exam_build task of high urgency
OverflowKinds ==
    { [task_type |-> "assignment_work", estimated_minutes |-> 5,
       urgencyScore |-> 100 * Scale, weaknessBonus |-> 0],
      [task_type |-> "exam_build", estimated_minutes |-> 60,
       urgencyScore |-> 5647, weaknessBonus |-> 30 * Scale],
      [task_type |-> "exam_build", estimated_minutes |-> 5,
       urgencyScore |-> 5647, weaknessBonus |-> 0] }

\* the daily target of those lists
OverflowTarget == 100

\* daily targets: at 100 the tolerances are the integers 78, 30 and 12, at
\* 240 they are 187.2, 72 and 28.8
Targets == {100, 240}

WithIds(kinds) ==
    [i \in 1..Len(kinds) |->
        [id |-> i, task_type |-> kinds[i].task_type,
         estimated_minutes |-> kinds[i].estimated_minutes,
         urgencyScore |-> kinds[i].urgencyScore,
         weaknessBonus |-> kinds[i].weaknessBonus]]

\* no call of scoreTasks is in progress
NoContext == [currentDate |-> 0, units |-> <<>>, courses |-> <<>>]

ScorerIdle ==
    /\ tasks = <<>>
    /\ context = NoContext
    /\ scored = <<>>

NoRows == [correct |-> 0, incorrect |-> 0]

NoTasks == [todo |-> 0, in_progress |-> 0, completed |-> 0]

NoReturn == [none |-> TRUE]

\* no analytics call is in progress and the tables are empty
AnalyticsIdle ==
    /\ unitTasks = NoTasks
    /\ attemptRows = NoRows
    /\ courseRow = <<>>
    /\ unitRows = <<>>
    /\ incompleteTasks = <<>>
    /\ focusSessions = <<>>
    /\ now = 0
    /\ ret = NoReturn

\* no generateDailyPlan call is in progress
PlannerIdle ==
    /\ authUser = FALSE
    /\ userProfile = <<>>
    /\ plannerRuns = <<>>

\* no practice action is in progress and its tables are empty
PracticeIdle ==
    /\ courseUnits = <<>>
    /\ taskTable = <<>>
    /\ attemptTable = <<>>
    /\ errorLogItems = {}
    /\ calls = <<>>

\* no calculateAllReadiness call is in progress
AllReadinessIdle ==
    /\ courseTable = <<>>
    /\ courseIds = <<>>
    /\ cursor = 0
    /\ readinessScores = <<>>
    /\ consoleErrors = <<>>

\* no server action is in progress
AppIdle == PlannerIdle /\ PracticeIdle /\ AllReadinessIdle

SchedulerIdle ==
    /\ scoredTasks = <<>>
    /\ targetStudyMinutesPerDay = 0
    /\ lanes = <<>>
    /\ examBuildTasks = <<>>
    /\ plan = NoPlan

\* every positive daily target up to MaxTarget
AnyTargets == 1..MaxTarget

\* the state on entry to the first lane-filling loop (lines 60-90 done):
\* either a list of up to MaxTasks tasks under two targets, or a list that
\* exercises the overflow fill, or at most one task under every target
InitScheduler ==
    /\ \/ /\ scoredTasks \in {WithIds(k) : k \in SeqsUpTo(TaskKinds, MaxTasks)}
          /\ targetStudyMinutesPerDay \in Targets
       \/ /\ scoredTasks \in {WithIds(k) : k \in SeqsUpTo(OverflowKinds, MaxTasks)}
          /\ targetStudyMinutesPerDay = OverflowTarget
       \/ /\ scoredTasks \in {WithIds(k) : k \in SeqsUpTo(TaskKinds, 1)}
          /\ targetStudyMinutesPerDay \in AnyTargets
    /\ lanes = InitialLanes(targetStudyMinutesPerDay)
    /\ examBuildTasks = FilterType(scoredTasks, "exam_build")
    /\ pc = "due_soon"
    /\ plan = NoPlan
    /\ ScorerIdle
    /\ AnalyticsIdle
    /\ AppIdle

\* lines 92-103: fill Due Soon with the assignment tasks
FillDueSoon ==
    /\ pc = "due_soon"
    /\ lanes' = [lanes EXCEPT
                   ![1] = FillLane(@, FilterType(scoredTasks, "assignment_work"))]
    /\ pc' = "overflow"
    /\ UNCHANGED <<scoredTasks, targetStudyMinutesPerDay, examBuildTasks, plan>>
    /\ UNCHANGED <<scorerVars, analyticsVars, appVars>>

\* lines 105-119: the Due Soon overflow fill
FillOverflow ==
    /\ pc = "overflow"
    /\ LET r == OverflowFill(lanes[1], examBuildTasks) IN
         /\ lanes' = [lanes EXCEPT ![1] = r.lane]
         /\ examBuildTasks' = r.pool
    /\ pc' = "exam_build"
    /\ UNCHANGED <<scoredTasks, targetStudyMinutesPerDay, plan>>
    /\ UNCHANGED <<scorerVars, analyticsVars, appVars>>

\* lines 121-132: fill Exam Build from the pool sorted by weaknessBonus
FillExamBuild ==
    /\ pc = "exam_build"
    /\ lanes' = [lanes EXCEPT ![2] = FillLane(@, sortedExamBuild(examBuildTasks))]
    /\ pc' = "timed_practice"
    /\ UNCHANGED <<scoredTasks, targetStudyMinutesPerDay, examBuildTasks, plan>>
    /\ UNCHANGED <<scorerVars, analyticsVars, appVars>>

\* lines 134-146: fill Timed Practice
FillTimedPractice ==
    /\ pc = "timed_practice"
    /\ lanes' = [lanes EXCEPT
                   ![3] = FillLane(@, FilterType(scoredTasks, "timed_practice"))]
    /\ pc' = "return"
    /\ UNCHANGED <<scoredTasks, targetStudyMinutesPerDay, examBuildTasks, plan>>
    /\ UNCHANGED <<scorerVars, analyticsVars, appVars>>

\* lines 148-154: return { lanes, totalMinutes }
ReturnPlan ==
    /\ pc = "return"
    /\ plan' = [lanes |-> lanes, totalMinutes |-> PlanTotal(lanes)]
    /\ pc' = "done"
    /\ UNCHANGED <<scoredTasks, targetStudyMinutesPerDay, lanes, examBuildTasks>>
    /\ UNCHANGED <<scorerVars, analyticsVars, appVars>>

\* lines 161-190: validatePlan on the returned plan
ValidatePlan ==
    /\ pc = "done"
    /\ ret' = [warnings |-> validatePlan(plan)]
    /\ pc' = "validated"
    /\ UNCHANGED <<schedulerVars, scorerVars, dbVars, appVars>>

NextScheduler ==
    \/ FillDueSoon
    \/ FillOverflow
    \/ FillExamBuild
    \/ FillTimedPractice
    \/ ReturnPlan
    \/ ValidatePlan

SpecScheduler == InitScheduler /\ [][NextScheduler]_vars

----------------------------------------------------------------------------
(* scoreTask and scoreTasks *)

\* a nullable column or field: Null, or Some(v)
Null == <<>>

Some(v) == <<v>>

\* a task with no unit: course_unit_id is null
NoUnit == ""

\* unrounded scores are kept in ten-thousandths of a point
Micro == 100 * Scale

\* Math.ceil(a / b) and Math.floor(a / b) for b > 0
CeilDiv(a, b) == -((-a) \div b)

FloorDiv(a, b) == a \div b

\* Math.min(hi, Math.max(lo, x))
Clamp(lo, hi, x) == Min(hi, Max(lo, x))

\* 100 * Math.exp(-d / 7) in ten-thousandths of a point, d = 0..15,
\* rounded to the nearest
ExpDecayTable ==
    << 1000000, 866878, 751477, 651439,
       564718, 489542, 424373, 367879,
       318907, 276453, 239651, 207748,
       180092, 156118, 135335, 117319 >>

ExpDecay(daysUntilDue) == ExpDecayTable[daysUntilDue + 1]

\* the mutant of calculateUrgency: the test for a missing due date is left
\* out, and new Date(null) is the epoch, a date long past
calculateUrgencyNoNullTest(dueDate, currentDate) ==
    LET due == IF dueDate = Null THEN currentDate - 1000 * DayHours
               ELSE dueDate[1]
        daysUntilDue == Max(0, CeilDiv(due - currentDate, DayHours))
    IN  Clamp(0, 100 * Micro, ExpDecay(daysUntilDue))

\* calculateUrgency, in ten-thousandths of a point
calculateUrgency(dueDate, currentDate) ==
    IF dueDate = Null THEN NoDueDateUrgency * Micro
    ELSE LET daysUntilDue ==
                 Max(0, CeilDiv(dueDate[1] - currentDate, DayHours))
         IN  Clamp(0, 100 * Micro, ExpDecay(daysUntilDue))

\* const baseImportance: Record<Task['task_type'], number>
baseImportance(type) ==
    CASE type = "assignment_work" -> BaseAssignmentWork
      [] type = "exam_build"      -> BaseExamBuild
      [] type = "timed_practice"  -> BaseTimedPractice

\* context.units.get(id) and context.courses.get(id): is there an entry
HasUnit(ctx, id) == id \in DOMAIN ctx.units

HasCourse(ctx, id) == id \in DOMAIN ctx.courses

\* the mutant of examBonus: an exam today also gets the bonus
examBonusWithToday(task, ctx) ==
    IF task.course_unit_id # NoUnit /\ HasUnit(ctx, task.course_unit_id)
    THEN LET unit == ctx.units[task.course_unit_id] IN
         IF HasCourse(ctx, unit.course_id)
         THEN LET daysUntilExam ==
                      CeilDiv(ctx.courses[unit.course_id].exam_date
                                - ctx.currentDate, DayHours)
              IN  IF daysUntilExam <= ExamWindowDays /\ daysUntilExam >= 0
                  THEN (ExamBonusMax * Micro * (ExamWindowDays - daysUntilExam))
                          \div ExamWindowDays
                  ELSE 0
         ELSE 0
    ELSE 0

\* 30 * (1 - daysUntilExam / 30) when 0 < daysUntilExam <= 30, in ten-thousandths
examBonus(task, ctx) ==
    IF task.course_unit_id # NoUnit /\ HasUnit(ctx, task.course_unit_id)
    THEN LET unit == ctx.units[task.course_unit_id] IN
         IF HasCourse(ctx, unit.course_id)
         THEN LET daysUntilExam ==
                      CeilDiv(ctx.courses[unit.course_id].exam_date
                                - ctx.currentDate, DayHours)
              IN  IF daysUntilExam <= ExamWindowDays /\ daysUntilExam > 0
                  THEN (ExamBonusMax * Micro * (ExamWindowDays - daysUntilExam))
                          \div ExamWindowDays
                  ELSE 0
         ELSE 0
    ELSE 0

\* calculateImportance, in ten-thousandths of a point
calculateImportance(task, ctx) ==
    Clamp(0, 100 * Micro,
          baseImportance(task.task_type) * Micro + examBonus(task, ctx))

\* the mutant of calculateWeaknessBonus: the steps are at mastery <= 30, 50, 70
calculateWeaknessBonusInclusive(task, ctx) ==
    IF task.course_unit_id = NoUnit THEN 0
    ELSE IF ~HasUnit(ctx, task.course_unit_id) THEN 0
    ELSE LET unit == ctx.units[task.course_unit_id]
             mastery == IF unit.mastery_score = Null THEN 0
                        ELSE unit.mastery_score[1]
         IN  IF mastery <= MasteryStruggling THEN WeaknessStruggling
             ELSE IF mastery <= MasteryDeveloping THEN WeaknessDeveloping
             ELSE IF mastery <= MasteryProgressing THEN WeaknessProgressing
             ELSE 0

\* calculateWeaknessBonus, in points
calculateWeaknessBonus(task, ctx) ==
    IF task.course_unit_id = NoUnit THEN 0
    ELSE IF ~HasUnit(ctx, task.course_unit_id) THEN 0
    ELSE LET unit == ctx.units[task.course_unit_id]
             mastery == IF unit.mastery_score = Null THEN 0
                        ELSE unit.mastery_score[1]
         IN  IF mastery < MasteryStruggling THEN WeaknessStruggling
             ELSE IF mastery < MasteryDeveloping THEN WeaknessDeveloping
             ELSE IF mastery < MasteryProgressing THEN WeaknessProgressing
             ELSE 0

\* a second mutant of calculateRecencyBonus: the ramp climbs 2.5 a day, to
\* 20 at day 6 (in points, rounded down)
calculateRecencyBonusSteep(task, ctx) ==
    IF task.course_unit_id = NoUnit THEN RecencyNoUnit
    ELSE IF \/ ~HasUnit(ctx, task.course_unit_id)
            \/ ctx.units[task.course_unit_id].last_studied_at = Null
         THEN RecencyFull
    ELSE LET lastStudied == ctx.units[task.course_unit_id].last_studied_at[1]
             daysSinceStudied ==
                 FloorDiv(ctx.currentDate - lastStudied, DayHours)
         IN  IF daysSinceStudied < RecencyRampFrom THEN 0
             ELSE IF daysSinceStudied < RecencyRampTo
                  THEN RecencyRampBase
                         + ((daysSinceStudied - RecencyRampFrom) * 5) \div 2
             ELSE RecencyFull

\* the mutant of calculateRecencyBonus: the ramp is not cut off at 7 days
calculateRecencyBonusNoCutoff(task, ctx) ==
    IF task.course_unit_id = NoUnit THEN RecencyNoUnit
    ELSE IF \/ ~HasUnit(ctx, task.course_unit_id)
            \/ ctx.units[task.course_unit_id].last_studied_at = Null
         THEN RecencyFull
    ELSE LET lastStudied == ctx.units[task.course_unit_id].last_studied_at[1]
             daysSinceStudied ==
                 FloorDiv(ctx.currentDate - lastStudied, DayHours)
         IN  IF daysSinceStudied < RecencyRampFrom THEN 0
             ELSE RecencyRampBase + (daysSinceStudied - RecencyRampFrom) * 2

\* calculateRecencyBonus, in points
calculateRecencyBonus(task, ctx) ==
    IF task.course_unit_id = NoUnit THEN RecencyNoUnit
    ELSE IF \/ ~HasUnit(ctx, task.course_unit_id)
            \/ ctx.units[task.course_unit_id].last_studied_at = Null
         THEN RecencyFull
    ELSE LET lastStudied == ctx.units[task.course_unit_id].last_studied_at[1]
             daysSinceStudied ==
                 FloorDiv(ctx.currentDate - lastStudied, DayHours)
         IN  IF daysSinceStudied < RecencyRampFrom THEN 0
             ELSE IF daysSinceStudied < RecencyRampTo
                  THEN RecencyRampBase + (daysSinceStudied - RecencyRampFrom) * 2
             ELSE RecencyFull

\* Math.round(x * 100) / 100 of a score x >= 0 given in ten-thousandths: the
\* result in hundredths
Round2(micro) == RoundDiv(micro, Micro \div Scale)

\* urgencyScore * 0.4 + importanceScore * 0.35 + weaknessBonus * 0.15
\*   + recencyBonus * 0.1, the four scores in ten-thousandths: the sum in
\* ten-thousandths times 100
WeightedSum(u, i, w, r) ==
    UrgencyWeight * u + ImportanceWeight * i + WeaknessWeight * w
      + RecencyWeight * r

\* the mutant of WeightedTotal: the total is computed from the sub-scores
\* already rounded to two decimals
WeightedTotalOfRounded(u, i, w, r) ==
    RoundDiv(WeightedSum(Round2(u), Round2(i), Round2(w), Round2(r)), 100)

\* Math.round(totalScore * 100) / 100, in hundredths
WeightedTotal(u, i, w, r) == RoundDiv(WeightedSum(u, i, w, r), 100 * (Micro \div Scale))

\* scoreTask: the task with its five scores, each in hundredths
scoreTask(task, ctx) ==
    LET urgencyScore    == calculateUrgency(task.due_date, ctx.currentDate)
        importanceScore == calculateImportance(task, ctx)
        weaknessBonus   == calculateWeaknessBonus(task, ctx) * Micro
        recencyBonus    == calculateRecencyBonus(task, ctx) * Micro
    IN  [id |-> task.id,
         task_type |-> task.task_type,
         due_date |-> task.due_date,
         estimated_minutes |-> task.estimated_minutes,
         course_unit_id |-> task.course_unit_id,
         totalScore |-> WeightedTotal(urgencyScore, importanceScore,
                                      weaknessBonus, recencyBonus),
         urgencyScore |-> Round2(urgencyScore),
         importanceScore |-> Round2(importanceScore),
         weaknessBonus |-> Round2(weaknessBonus),
         recencyBonus |-> Round2(recencyBonus)]

\* tasks.map((task) => scoreTask(task, ctx))
MapScoreTask(ts, ctx) == [i \in 1..Len(ts) |-> scoreTask(ts[i], ctx)]

\* the mutant of InsertByScore: an element is put before the elements of
\* equal score, which is what an unstable sort may do
InsertByScoreBeforeEqual(sorted, t) ==
    LET k == Cardinality({j \in 1..Len(sorted) :
                             sorted[j].totalScore > t.totalScore})
    IN  SubSeq(sorted, 1, k) \o <<t>> \o SubSeq(sorted, k + 1, Len(sorted))

\* one step of a stable sort by (a, b) => b.totalScore - a.totalScore: t
\* goes after every element whose score is not below its own
InsertByScore(sorted, t) ==
    LET k == Cardinality({j \in 1..Len(sorted) :
                             sorted[j].totalScore >= t.totalScore})
    IN  SubSeq(sorted, 1, k) \o <<t>> \o SubSeq(sorted, k + 1, Len(sorted))

RECURSIVE SortByScore(_, _)
SortByScore(sorted, rest) ==
    IF rest = <<>> THEN sorted
    ELSE SortByScore(InsertByScore(sorted, Head(rest)), Tail(rest))

\* scoreTasks: map, then scoredTasks.sort(...) (Array.prototype.sort is stable)
scoreTasks(ts, ctx) == SortByScore(<<>>, MapScoreTask(ts, ctx))

(* The inputs scoreTasks is run on.  Day 0 starts at hour 0; a due date and *)
(* an exam date are dates (midnight), the current date and the time a unit *)
(* was last studied are any hour.                                          *)
TaskTypes == {"assignment_work", "exam_build", "timed_practice"}

CurrentDates == {0, DayHours \div 2}

DueDates == {Null} \cup {Some(d * DayHours) : d \in -1..MaxDueDays}

MasteryScores == {Null} \cup {Some(m) : m \in {0, 29, 30, 49, 50, 69, 70}}

LastStudiedAts ==
    {Null} \cup {Some(DayHours \div 4 - d * DayHours) : d \in 0..MaxSinceDays}

ExamDates == {d * DayHours : d \in {-1, 0, 1, 15, 30, 31}}

\* the units map: empty, or the unit "u1" of course "c1"
UnitMaps ==
    {<<>>} \cup
    {[u \in {"u1"} |-> [id |-> "u1", course_id |-> "c1",
                        mastery_score |-> m, last_studied_at |-> l]] :
        m \in MasteryScores, l \in LastStudiedAts}

\* the courses map: empty, or the course "c1"
CourseMaps ==
    {<<>>} \cup
    {[c \in {"c1"} |-> [id |-> "c1", exam_date |-> e]] : e \in ExamDates}

Contexts ==
    {[currentDate |-> n, units |-> u, courses |-> c] :
        n \in CurrentDates, u \in UnitMaps, c \in CourseMaps}

TaskShapes ==
    {[task_type |-> ty, due_date |-> due, estimated_minutes |-> 30,
      course_unit_id |-> u] :
        ty \in TaskTypes, due \in DueDates, u \in {NoUnit, "u1"}}

\* the tasks of the lists that are sorted: no unit, three due dates
ListShapes ==
    {[task_type |-> ty, due_date |-> due, estimated_minutes |-> 30,
      course_unit_id |-> NoUnit] :
        ty \in TaskTypes,
        due \in {Null, Some(-DayHours), Some(MaxDueDays * DayHours)}}

TasksWithIds(shapes) ==
    [i \in 1..Len(shapes) |->
        [id |-> i, task_type |-> shapes[i].task_type,
         due_date |-> shapes[i].due_date,
         estimated_minutes |-> shapes[i].estimated_minutes,
         course_unit_id |-> shapes[i].course_unit_id]]

\* either one task under every context, or a list of tasks under one context
InitScorer ==
    /\ \/ /\ tasks \in {TasksWithIds(<<t>>) : t \in TaskShapes}
          /\ context \in Contexts
       \/ /\ tasks \in {TasksWithIds(l) : l \in SeqsUpTo(ListShapes, MaxScoreTasks)}
          /\ context = NoContext
    /\ scored = <<>>
    /\ pc = "scoreTasks"
    /\ SchedulerIdle
    /\ AnalyticsIdle
    /\ AppIdle

\* lines 391-399: return scoredTasks.sort(...)
ScoreTasks ==
    /\ pc = "scoreTasks"
    /\ scored' = scoreTasks(tasks, context)
    /\ pc' = "done"
    /\ UNCHANGED <<tasks, context>>
    /\ UNCHANGED <<schedulerVars, analyticsVars, appVars>>

NextScorer == ScoreTasks

SpecScorer == InitScorer /\ [][NextScorer]_vars

----------------------------------------------------------------------------
(* calculateUnitMastery *)

\* tasks.length and tasks.filter((t) => t.status === 'completed').length
TaskCount(rows) == rows.todo + rows.in_progress + rows.completed

\* attempts.length
AttemptCount(rows) == rows.correct + rows.incorrect

\* the mutant of calculateUnitMastery: a single metric is not taken
\* unscaled, it keeps its 40% or 60% weight
calculateUnitMasteryWeighted(taskRows, attempts) ==
    LET nTasks == TaskCount(taskRows)
        nAttempts == AttemptCount(attempts)
        den == Max(1, nTasks) * Max(1, nAttempts)
        rate == IF nTasks > 0
                THEN 100 * taskRows.completed * Max(1, nAttempts) ELSE 0
        accuracy == IF nAttempts > 0
                    THEN 100 * attempts.correct * Max(1, nTasks) ELSE 0
        weighted == (IF nTasks > 0 THEN TaskShare * rate ELSE 0)
                      + (IF nAttempts > 0 THEN QuestionShare * accuracy ELSE 0)
    IN  IF nTasks = 0 /\ nAttempts = 0 THEN 0
        ELSE RoundDiv(Clamp(0, 100 * 100 * den, weighted), 100 * den)

\* calculateUnitMastery on the rows of one unit.  The two percentages are
\* fractions over den = tasks.length * attempts.length; the weighted sum is
\* kept times 100.
calculateUnitMastery(taskRows, attempts) ==
    LET nTasks == TaskCount(taskRows)
        nAttempts == AttemptCount(attempts)
        den == Max(1, nTasks) * Max(1, nAttempts)
        \* taskCompletionRate * den and questionAccuracy * den
        rate == IF nTasks > 0
                THEN 100 * taskRows.completed * Max(1, nAttempts) ELSE 0
        accuracy == IF nAttempts > 0
                    THEN 100 * attempts.correct * Max(1, nTasks) ELSE 0
        weighted == (IF nTasks > 0 THEN TaskShare * rate ELSE 0)
                      + (IF nAttempts > 0 THEN QuestionShare * accuracy ELSE 0)
        mastery == IF nTasks > 0 /\ nAttempts = 0 THEN 100 * rate
                   ELSE IF nTasks = 0 /\ nAttempts > 0 THEN 100 * accuracy
                   ELSE weighted
    IN  IF nTasks = 0 /\ nAttempts = 0 THEN 0
        ELSE RoundDiv(Clamp(0, 100 * 100 * den, mastery), 100 * den)

\* the rows of a unit with at most MaxUnitRows tasks and attempts
TaskRowCounts ==
    {r \in [todo : 0..MaxUnitRows, in_progress : 0..MaxUnitRows,
            completed : 0..MaxUnitRows] : TaskCount(r) <= MaxUnitRows}

AttemptRowCounts(most) ==
    {r \in [correct : 0..most, incorrect : 0..most] : AttemptCount(r) <= most}

InitMastery ==
    /\ unitTasks \in TaskRowCounts
    /\ attemptRows \in AttemptRowCounts(MaxUnitRows)
    /\ courseRow = <<>>
    /\ unitRows = <<>>
    /\ incompleteTasks = <<>>
    /\ focusSessions = <<>>
    /\ now = 0
    /\ ret = NoReturn
    /\ pc = "calculateUnitMastery"
    /\ SchedulerIdle
    /\ ScorerIdle
    /\ AppIdle

\* mastery.ts 11-66
CalculateUnitMastery ==
    /\ pc = "calculateUnitMastery"
    /\ ret' = [mastery |-> calculateUnitMastery(unitTasks, attemptRows)]
    /\ pc' = "done"
    /\ UNCHANGED <<dbVars, schedulerVars, scorerVars, appVars>>

NextMastery == CalculateUnitMastery

SpecMastery == InitMastery /\ [][NextMastery]_vars

----------------------------------------------------------------------------
(* calculateReadiness *)

\* a percentage as the fraction num / den
Percent(part, whole) ==
    IF whole = 0 THEN [num |-> 0, den |-> 1]
    ELSE [num |-> 100 * part, den |-> whole]

MasteryOf(u) == IF u.mastery_score = Null THEN 0 ELSE u.mastery_score[1]

\* calculateCoverage
calculateCoverage(rows) ==
    LET proficientUnits ==
            Cardinality({i \in 1..Len(rows) :
                            MasteryOf(rows[i]) >= ProficientFrom})
    IN  Percent(proficientUnits, Len(rows))

\* calculateAccuracy
calculateAccuracy(attempts) ==
    Percent(attempts.correct, AttemptCount(attempts))

\* calculateRecency
calculateRecency(rows, clock) ==
    LET fourteenDaysAgo == clock - RecentDays * DayHours
        Recent(u) == /\ u.last_studied_at # Null
                     /\ u.last_studied_at[1] >= fourteenDaysAgo
        recentUnits == Cardinality({i \in 1..Len(rows) : Recent(rows[i])})
    IN  Percent(recentUnits, Len(rows))

\* (incompleteTasks || []).reduce((sum, t) => sum + (t.estimated_minutes || 0), 0)
RECURSIVE SumEstimates(_)
SumEstimates(rows) ==
    IF rows = <<>> THEN 0
    ELSE (IF Head(rows) = Null THEN 0 ELSE Head(rows)[1])
           + SumEstimates(Tail(rows))

\* .gte('ended_at', new Date(Date.now() - 30 * 24 * 60 * 60 * 1000))
recentSessions(sessions, clock) ==
    LET InWindow(x) == x.ended_at >= clock - SessionWindowDays * DayHours IN
    SelectSeq(sessions, InWindow)

RECURSIVE SumDurations(_)
SumDurations(rows) ==
    IF rows = <<>> THEN 0
    ELSE Head(rows).duration_minutes + SumDurations(Tail(rows))

\* avgDailyMinutes as the fraction num / den
avgDailyMinutes(recent) ==
    IF Len(recent) > 0
    THEN [num |-> SumDurations(recent),
          den |-> Min(SessionDivisorCap, Len(recent))]
    ELSE [num |-> DefaultDailyMinutes, den |-> 1]

\* Math.max(0, Math.ceil((exam.getTime() - Date.now()) / day))
daysUntilExam(examDate, clock) ==
    Max(0, CeilDiv(examDate - clock, DayHours))

\* requiredDays <= daysUntilExam * quarters / 4, requiredDays = num / den
WithinDays(required, days, quarters) ==
    4 * required.num <= days * quarters * required.den

\* the steps of calculatePacing after the exam-day test
PacingSteps(required, days) ==
    IF WithinDays(required, days, 2) THEN PacingWayAhead
    ELSE IF WithinDays(required, days, 3) THEN PacingAhead
    ELSE IF WithinDays(required, days, 4) THEN PacingOnTrack
    ELSE IF WithinDays(required, days, 6) THEN PacingBehind
    ELSE PacingFarBehind

\* requiredDays = avgDailyMinutes > 0 ? totalMinutesRemaining / avgDailyMinutes : 0
requiredDays(remaining, avg) ==
    IF avg.num > 0 THEN [num |-> remaining * avg.den, den |-> avg.num]
    ELSE [num |-> 0, den |-> 1]

\* the mutant of calculatePacing: the test for the exam day is left out
calculatePacingNoExamDay(open, sessions, examDate, clock) ==
    PacingSteps(requiredDays(SumEstimates(open),
                             avgDailyMinutes(recentSessions(sessions, clock))),
                daysUntilExam(examDate, clock))

\* calculatePacing
calculatePacing(open, sessions, examDate, clock) ==
    LET totalMinutesRemaining == SumEstimates(open)
        required == requiredDays(totalMinutesRemaining,
                                 avgDailyMinutes(recentSessions(sessions, clock)))
        days == daysUntilExam(examDate, clock)
    IN  IF days = 0
        THEN (IF totalMinutesRemaining = 0 THEN 100 ELSE 0)
        ELSE PacingSteps(required, days)

\* Math.round of a percentage
RoundPercent(x) == RoundDiv(x.num, x.den)

\* Math.round(percentage * weight), the weight in hundredths
RoundShare(x, weight) == RoundDiv(weight * x.num, 100 * x.den)

\* the mutant of readinessTotal: the total is computed from the sub-scores
\* already rounded to integers
readinessTotalOfRounded(coverage, accuracy, recency, pacing) ==
    RoundDiv(CoverageWeight * RoundPercent(coverage)
               + AccuracyWeight * RoundPercent(accuracy)
               + RecencyShare * RoundPercent(recency)
               + PacingWeight * pacing, 100)

\* Math.round(coverage * 0.25 + accuracy * 0.35 + recency * 0.2 + pacing * 0.2)
readinessTotal(coverage, accuracy, recency, pacing) ==
    LET den == coverage.den * accuracy.den * recency.den IN
    RoundDiv(CoverageWeight * coverage.num * accuracy.den * recency.den
               + AccuracyWeight * accuracy.num * coverage.den * recency.den
               + RecencyShare * recency.num * coverage.den * accuracy.den
               + PacingWeight * pacing * den,
             100 * den)

CourseNotFound == [error |-> "Course not found"]

\* calculateReadiness: the ReadinessScore, or the error it throws
calculateReadiness(course, rows, attempts, open, sessions, clock) ==
    IF course = Null THEN CourseNotFound
    ELSE LET coverage == calculateCoverage(rows)
             accuracy == calculateAccuracy(attempts)
             recency  == calculateRecency(rows, clock)
             pacing   == calculatePacing(open, sessions,
                                         course[1].exam_date, clock)
         IN  [totalScore |-> Clamp(0, 100, readinessTotal(coverage, accuracy,
                                                          recency, pacing)),
              coverage |-> RoundPercent(coverage),
              accuracy |-> RoundPercent(accuracy),
              recency  |-> RoundPercent(recency),
              pacing   |-> pacing,
              breakdown |->
                 [coverageWeight |-> RoundShare(coverage, CoverageWeight),
                  accuracyWeight |-> RoundShare(accuracy, AccuracyWeight),
                  recencyWeight  |-> RoundShare(recency, RecencyShare),
                  pacingWeight   |-> RoundDiv(PacingWeight * pacing, 100)]]

(* The rows calculateReadiness is run on.  The clock is at hour 0 or 12 of *)
(* day 0; the exam date is a date.                                         *)
UnitKinds ==
    { [mastery_score |-> Some(50), last_studied_at |-> Some(-336)],
      [mastery_score |-> Some(49), last_studied_at |-> Some(-337)],
      [mastery_score |-> Some(50), last_studied_at |-> Null],
      [mastery_score |-> Null, last_studied_at |-> Some(-336)] }

CourseRows == {Some([exam_date |-> d * DayHours]) : d \in {-1, 0, 1, 2}}

OpenTaskLists ==
    { <<>>, <<Some(30)>>, <<Some(31)>>, <<Some(45)>>, <<Some(46)>>,
      <<Some(60)>>, <<Some(61)>>, <<Some(90)>>, <<Some(91)>>,
      <<Some(30), Some(30)>>, <<Null>>, <<Null, Some(45)>> }

SessionLists ==
    { <<>>,
      <<[duration_minutes |-> 30, ended_at |-> -24]>>,
      <<[duration_minutes |-> 45, ended_at |-> -24]>>,
      <<[duration_minutes |-> 90, ended_at |-> -24],
        [duration_minutes |-> 30, ended_at |-> -48]>>,
      <<[duration_minutes |-> 30, ended_at |-> -720]>> }

\* either every pacing input with no unit, or every list of units and
\* attempts with a few pacing inputs, or no course
InitReadiness ==
    /\ unitTasks = NoTasks
    /\ \/ /\ courseRow \in CourseRows
          /\ unitRows = <<>>
          /\ attemptRows = NoRows
          /\ incompleteTasks \in OpenTaskLists
          /\ focusSessions \in SessionLists
          /\ now \in {0, DayHours \div 2}
       \/ /\ courseRow \in {Some([exam_date |-> d * DayHours]) : d \in {0, 1}}
          /\ unitRows \in SeqsUpTo(UnitKinds, MaxUnits)
          /\ attemptRows \in AttemptRowCounts(MaxAttempts)
          /\ unitRows = <<>> => attemptRows = NoRows
          /\ incompleteTasks \in {<<>>, <<Some(61)>>}
          /\ focusSessions = <<>>
          /\ now = 0
       \/ /\ courseRow = Null
          /\ unitRows = <<>>
          /\ attemptRows = NoRows
          /\ incompleteTasks \in {<<>>, <<Some(61)>>}
          /\ focusSessions = <<>>
          /\ now = 0
    /\ ret = NoReturn
    /\ pc = "calculateReadiness"
    /\ SchedulerIdle
    /\ ScorerIdle
    /\ AppIdle

\* readiness.ts 133-202
CalculateReadiness ==
    /\ pc = "calculateReadiness"
    /\ ret' = calculateReadiness(courseRow, unitRows, attemptRows,
                                 incompleteTasks, focusSessions, now)
    /\ pc' = "done"
    /\ UNCHANGED <<dbVars, schedulerVars, scorerVars, appVars>>

NextReadiness == CalculateReadiness

SpecReadiness == InitReadiness /\ [][NextReadiness]_vars

----------------------------------------------------------------------------
(* generateDailyPlan *)

\* scheduleTasks as one function: the five steps in order
scheduleTasks(st, target) ==
    LET fresh == InitialLanes(target)
        dueSoon == FillLane(fresh[1], FilterType(st, "assignment_work"))
        overflow == OverflowFill(dueSoon, FilterType(st, "exam_build"))
        examBuild == FillLane(fresh[2], sortedExamBuild(overflow.pool))
        timedPractice == FillLane(fresh[3], FilterType(st, "timed_practice"))
        filled == <<overflow.lane, examBuild, timedPractice>>
    IN  [lanes |-> filled, totalMinutes |-> PlanTotal(filled)]

\* a plan with its lanes' targetMinutes written in hundredths of a minute
InHundredths(p) ==
    [lanes |-> [i \in 1..Len(p.lanes) |->
                   [p.lanes[i] EXCEPT !.targetMinutes = @ * Scale]],
     totalMinutes |-> p.totalMinutes]

\* the plan returned when there is no incomplete task: targetMinutes is
\* targetStudyMinutes * 0.65, * 0.25 and * 0.1, in hundredths of a minute
emptyPlan(target) ==
    [lanes |->
       << [name |-> "due_soon", tasks |-> <<>>, totalMinutes |-> 0,
           targetMinutes |-> target * 65],
          [name |-> "exam_build", tasks |-> <<>>, totalMinutes |-> 0,
           targetMinutes |-> target * 25],
          [name |-> "timed_practice", tasks |-> <<>>, totalMinutes |-> 0,
           targetMinutes |-> target * 10] >>,
     totalMinutes |-> 0]

\* userProfile?.target_study_minutes_per_day || 120
targetStudyMinutes(profile) ==
    IF profile = Null THEN DefaultTarget
    ELSE IF profile[1].target_study_minutes_per_day = Null THEN DefaultTarget
    ELSE IF profile[1].target_study_minutes_per_day[1] = 0 THEN DefaultTarget
    ELSE profile[1].target_study_minutes_per_day[1]

\* the planner_runs row of a plan
plannerRun(p, planDate) ==
    [plan_date |-> planDate,
     plan_data |->
        [lanes |-> [i \in 1..Len(p.lanes) |->
                       [name |-> p.lanes[i].name,
                        taskIds |-> [j \in 1..Len(p.lanes[i].tasks) |->
                                        p.lanes[i].tasks[j].id]]],
         totalMinutes |-> p.totalMinutes]]

NotAuthenticated == [success |-> FALSE, error |-> "Not authenticated"]

\* the users rows: no row, no target, or a target
ProfileTargets == {0, 1, 30, 50, 120, 240}

UserProfiles(targets) ==
    {Null, Some([target_study_minutes_per_day |-> Null])}
      \cup {Some([target_study_minutes_per_day |-> Some(t)]) : t \in targets}

\* the incomplete tasks, as the query returns them: ordered by due date
PlanShapes ==
    {[task_type |-> ty, due_date |-> Some(DayHours), estimated_minutes |-> 30,
      course_unit_id |-> NoUnit] : ty \in TaskTypes}

\* either no incomplete task under every target, or up to MaxPlanTasks tasks
\* under a few targets
InitPlanner ==
    /\ authUser \in BOOLEAN
    /\ \/ /\ tasks = <<>>
          /\ userProfile \in UserProfiles(0..MaxTarget)
       \/ /\ tasks \in {TasksWithIds(l) : l \in SeqsUpTo(PlanShapes, MaxPlanTasks)}
          /\ userProfile \in UserProfiles(ProfileTargets)
    /\ context = NoContext
    /\ scored = <<>>
    /\ plannerRuns = <<>>
    /\ ret = NoReturn
    /\ unitTasks = NoTasks
    /\ attemptRows = NoRows
    /\ courseRow = <<>>
    /\ unitRows = <<>>
    /\ incompleteTasks = <<>>
    /\ focusSessions = <<>>
    /\ now = 0
    /\ pc = "generateDailyPlan"
    /\ SchedulerIdle
    /\ PracticeIdle
    /\ AllReadinessIdle

\* planner.ts 12-149; inserted tells whether the planner_runs insert succeeded
GenerateDailyPlan ==
    /\ pc = "generateDailyPlan"
    /\ \E inserted \in BOOLEAN :
         LET target == targetStudyMinutes(userProfile)
             daily == scheduleTasks(scoreTasks(tasks, context), target)
         IN  IF ~authUser
             THEN /\ ret' = NotAuthenticated
                  /\ inserted
                  /\ UNCHANGED plannerRuns
             ELSE IF Len(tasks) = 0
             THEN /\ ret' = [success |-> TRUE, plan |-> emptyPlan(target)]
                  /\ inserted
                  /\ UNCHANGED plannerRuns
             ELSE /\ ret' = [success |-> TRUE, plan |-> InHundredths(daily)]
                  /\ plannerRuns' =
                        IF inserted
                        THEN Append(plannerRuns,
                                    plannerRun(daily, context.currentDate))
                        ELSE plannerRuns
    /\ pc' = "done"
    /\ UNCHANGED <<tasks, context, scored, authUser, userProfile>>
    /\ UNCHANGED <<dbVars, schedulerVars, practiceVars, allReadinessVars>>

\* toISOString().split('T')[0]: the day of a time in hours
dateOf(clock) == clock \div DayHours

NoPlanForToday == [success |-> FALSE, error |-> "No plan for today"]

\* .eq('plan_date', today).order('created_at', { ascending: false })
\*   .limit(1).single(): the newest run of today, Null when there is none
todaysRun(runs, clock) ==
    LET IsToday(r) == dateOf(r.plan_date) = dateOf(clock)
        found == SelectSeq(runs, IsToday)
    IN  IF found = <<>> THEN Null ELSE Some(found[Len(found)])

\* laneData.taskIds.map((id) => tasks.find((t) => t.id === id)).filter(Boolean)
RECURSIVE laneTasksOf(_, _)
laneTasksOf(taskIds, table) ==
    IF taskIds = <<>> THEN <<>>
    ELSE LET Is(t) == t.id = Head(taskIds)
             found == SelectSeq(table, Is)
         IN  (IF found = <<>> THEN <<>> ELSE <<found[1]>>)
               \o laneTasksOf(Tail(taskIds), table)

\* the plan getTodaysPlan rebuilds from a planner_runs row and the tasks table
reconstructedPlan(run, table) ==
    [lanes |->
        [i \in 1..Len(run.plan_data.lanes) |->
            LET laneTasks == laneTasksOf(run.plan_data.lanes[i].taskIds, table)
            IN  [name |-> run.plan_data.lanes[i].name,
                 tasks |-> laneTasks,
                 totalMinutes |-> SumMinutes(laneTasks),
                 targetMinutes |-> 0]],
     totalMinutes |-> run.plan_data.totalMinutes]

\* planner.ts 154-225: getTodaysPlan, called after generateDailyPlan returned
GetTodaysPlan ==
    /\ pc = "done"
    /\ ret' = IF ~authUser THEN NotAuthenticated
              ELSE IF todaysRun(plannerRuns, now) = Null THEN NoPlanForToday
              ELSE [success |-> TRUE,
                    plan |-> reconstructedPlan(todaysRun(plannerRuns, now)[1],
                                               tasks)]
    /\ pc' = "getTodaysPlan"
    /\ UNCHANGED <<tasks, context, scored, plannerVars>>
    /\ UNCHANGED <<dbVars, schedulerVars, practiceVars, allReadinessVars>>

NextPlanner == GenerateDailyPlan \/ GetTodaysPlan

SpecPlanner == InitPlanner /\ [][NextPlanner]_vars

----------------------------------------------------------------------------
(* scoreTasks, scheduleTasks and validatePlan, each on the result of the *)
(* one before, and what each leaves of its argument                       *)

\* the tasks array after scoreTasks: tasks.map builds a new array, and it is
\* the new array that is sorted
tasksAfterScoring(ts, ctx) == ts

\* the mutant of scoredAfterScheduling: the splice of the overflow fill works
\* on the argument
scoredAfterSchedulingSpliced(st, target) ==
    LET due == scheduleTasks(st, target).lanes[1]
        Kept(t) == ~(t.task_type = "exam_build"
                       /\ \E i \in 1..Len(due.tasks) : due.tasks[i].id = t.id)
    IN  SelectSeq(st, Kept)

\* the scoredTasks array after scheduleTasks: filter builds the three pools,
\* the splice works on the exam_build pool and the sort on a copy of it
scoredAfterScheduling(st, target) == st

\* the plan after validatePlan, which only reads it
planAfterValidation(p) == p

PipelineTarget == 120

InitPipeline ==
    /\ tasks \in {TasksWithIds(l) : l \in SeqsUpTo(ListShapes, MaxPipelineTasks)}
    /\ context = NoContext
    /\ scored = <<>>
    /\ scoredTasks = <<>>
    /\ targetStudyMinutesPerDay = PipelineTarget
    /\ lanes = <<>>
    /\ examBuildTasks = <<>>
    /\ plan = NoPlan
    /\ pc = "scoreTasks"
    /\ AnalyticsIdle
    /\ AppIdle

\* scheduler.ts 391-399
PipelineScore ==
    /\ pc = "scoreTasks"
    /\ scored' = scoreTasks(tasks, context)
    /\ tasks' = tasksAfterScoring(tasks, context)
    /\ pc' = "scheduleTasks"
    /\ UNCHANGED <<context, schedulerVars, analyticsVars, appVars>>

\* scheduler.ts 56-155, on the array scoreTasks returned
PipelineSchedule ==
    /\ pc = "scheduleTasks"
    /\ plan' = scheduleTasks(scored, targetStudyMinutesPerDay)
    /\ scored' = scoredAfterScheduling(scored, targetStudyMinutesPerDay)
    /\ pc' = "validatePlan"
    /\ UNCHANGED <<tasks, context, scoredTasks, targetStudyMinutesPerDay, lanes,
                   examBuildTasks, analyticsVars, appVars>>

\* scheduler.ts 161-190, on the plan scheduleTasks returned
PipelineValidate ==
    /\ pc = "validatePlan"
    /\ ret' = [warnings |-> validatePlan(plan)]
    /\ plan' = planAfterValidation(plan)
    /\ pc' = "done"
    /\ UNCHANGED <<scorerVars, scoredTasks, targetStudyMinutesPerDay, lanes,
                   examBuildTasks, dbVars, appVars>>

NextPipeline ==
    \/ PipelineScore
    \/ PipelineSchedule
    \/ PipelineValidate

SpecPipeline == InitPipeline /\ [][NextPipeline]_vars

----------------------------------------------------------------------------
(* updateUnitMastery and the tables it works on *)

UnitIds == {"u1", "u2"}

\* course_units.unit_name
UnitName(u) == IF u = "u1" THEN "Limits" ELSE "Derivatives"

\* `Review: ${unit.unit_name}`
ReviewTitle(name) == <<"Review: ", name>>

\* the title of a task the user created
OtherTitle == <<"Problem set">>

\* the tasks of a unit counted by status, as
\* .from('tasks').select('id, status').eq('course_unit_id', courseUnitId) reads them
TaskCountsOf(table, u) ==
    LET Has(st) == Cardinality({i \in 1..Len(table) :
                                   /\ table[i].course_unit_id = u
                                   /\ table[i].status = st})
    IN  [todo |-> Has("todo"), in_progress |-> Has("in_progress"),
         completed |-> Has("completed")]

\* the attempts of a unit as .from('question_attempts').select('id, correct')
\* reads them: the rows are written with is_correct, the column correct is
\* never written, so a.correct is true of no row
AttemptsAsRead(table, u) ==
    [correct |-> 0, incorrect |-> table[u].correct + table[u].incorrect]

\* calculateUnitMastery(userId, courseUnitId) on the tables
unitMastery(table, attempts, u) ==
    calculateUnitMastery(TaskCountsOf(table, u), AttemptsAsRead(attempts, u))

\* the mutant of updatedUnits: the update has no .eq('id', courseUnitId)
updatedUnitsNoFilter(units, u, mastery, clock) ==
    [x \in DOMAIN units |->
        [units[x] EXCEPT !.mastery_score = Some(mastery),
                         !.last_studied_at = Some(clock)]]

\* .update({ mastery_score, last_studied_at }).eq('id', courseUnitId)
updatedUnits(units, u, mastery, clock) ==
    [x \in DOMAIN units |->
        IF x = u
        THEN [units[x] EXCEPT !.mastery_score = Some(mastery),
                              !.last_studied_at = Some(clock)]
        ELSE units[x]]

\* the rows the mastery actions start from
UnitRowsOf(ms, ls) ==
    [u \in UnitIds |-> [unit_name |-> UnitName(u), course_id |-> "c1",
                        mastery_score |-> ms, last_studied_at |-> ls]]

StoredTasks ==
    {[course_unit_id |-> u, task_type |-> "exam_build", title |-> OtherTitle,
      status |-> st] :
        u \in UnitIds, st \in {"todo", "in_progress", "completed"}}
    \ {[course_unit_id |-> "u2", task_type |-> "exam_build",
         title |-> OtherTitle, status |-> "in_progress"]}

\* unit u1 has up to MaxStoredAttempts attempts, unit u2 has one
StoredAttempts ==
    {[u \in UnitIds |-> IF u = "u1" THEN r ELSE [correct |-> 1, incorrect |-> 0]] :
        r \in AttemptRowCounts(MaxStoredAttempts)}

InitUnitMastery ==
    /\ courseUnits \in {UnitRowsOf(Some(0), Null), UnitRowsOf(Some(40), Some(-DayHours))}
    /\ taskTable \in SeqsUpTo(StoredTasks, MaxUnitTasks)
    /\ attemptTable \in StoredAttempts
    /\ errorLogItems = {}
    /\ calls = <<>>
    /\ now = 0
    /\ ret = NoReturn
    /\ unitTasks = NoTasks
    /\ attemptRows = NoRows
    /\ courseRow = <<>>
    /\ unitRows = <<>>
    /\ incompleteTasks = <<>>
    /\ focusSessions = <<>>
    /\ pc = "idle"
    /\ SchedulerIdle
    /\ ScorerIdle
    /\ PlannerIdle
    /\ AllReadinessIdle

\* mastery.ts 11-66, called for unit u
CallCalculateUnitMastery(u) ==
    /\ ret' = [unit |-> u,
               mastery |-> unitMastery(taskTable, attemptTable, u)]
    /\ pc' = "calculateUnitMastery"
    /\ UNCHANGED <<unitTasks, attemptRows, courseRow, unitRows,
                   incompleteTasks, focusSessions, now>>
    /\ UNCHANGED <<practiceVars, plannerVars, allReadinessVars, schedulerVars, scorerVars>>

\* mastery.ts 71-85, called for unit u
CallUpdateUnitMastery(u) ==
    /\ courseUnits' = updatedUnits(courseUnits, u,
                                   unitMastery(taskTable, attemptTable, u), now)
    /\ ret' = [unit |-> u]
    /\ pc' = "updateUnitMastery"
    /\ UNCHANGED <<unitTasks, attemptRows, courseRow, unitRows,
                   incompleteTasks, focusSessions, now>>
    /\ UNCHANGED <<taskTable, attemptTable, errorLogItems, calls>>
    /\ UNCHANGED <<plannerVars, allReadinessVars, schedulerVars, scorerVars>>

\* the user completes a task
CompleteTask(i) ==
    /\ taskTable[i].status # "completed"
    /\ taskTable' = [taskTable EXCEPT ![i].status = "completed"]
    /\ pc' = "completeTask"
    /\ UNCHANGED <<dbVars, ret>>
    /\ UNCHANGED <<courseUnits, attemptTable, errorLogItems, calls>>
    /\ UNCHANGED <<plannerVars, allReadinessVars, schedulerVars, scorerVars>>

\* a day passes
Tick ==
    /\ now < MaxClockDays * DayHours
    /\ now' = now + DayHours
    /\ pc' = "tick"
    /\ UNCHANGED <<unitTasks, attemptRows, courseRow, unitRows,
                   incompleteTasks, focusSessions, ret>>
    /\ UNCHANGED <<practiceVars, plannerVars, allReadinessVars, schedulerVars, scorerVars>>

NextUnitMastery ==
    \/ \E u \in UnitIds : CallCalculateUnitMastery(u)
    \/ \E u \in UnitIds : CallUpdateUnitMastery(u)
    \/ \E i \in 1..Len(taskTable) : CompleteTask(i)
    \/ Tick

SpecUnitMastery == InitUnitMastery /\ [][NextUnitMastery]_vars

----------------------------------------------------------------------------
(* calculateAllReadiness *)

\* course ids, in the order the courses query returns them
CourseIdList == <<"c1", "c2", "c3", "c4">>

\* the rows of a course and of its units, attempts and open tasks
CourseKinds ==
    { [exam_date |-> 0, units |-> <<>>, attempts |-> NoRows, open |-> <<>>],
      [exam_date |-> 2 * DayHours,
       units |-> <<[mastery_score |-> Some(50), last_studied_at |-> Some(-336)]>>,
       attempts |-> [correct |-> 1, incorrect |-> 1],
       open |-> <<Some(61)>>] }

\* .from('courses').select('id').eq('user_id', userId): the ids of the rows
selectCourseIds(table) ==
    LET Present(id) == table[id] # Null IN
    SelectSeq(SubSeq(CourseIdList, 1, Cardinality(DOMAIN table)), Present)

\* calculateReadiness(userId, course.id) on the tables
readinessOf(table, id, sessions, clock) ==
    IF table[id] = Null THEN CourseNotFound
    ELSE calculateReadiness(Some([exam_date |-> table[id][1].exam_date]),
                            table[id][1].units, table[id][1].attempts,
                            table[id][1].open, sessions, clock)

\* readinessScores.set(course.id, score)
MapSet(map, key, value) ==
    [k \in DOMAIN map \cup {key} |-> IF k = key THEN value ELSE map[k]]

\* the mutant of afterIteration: there is no try / catch, the error leaves
\* the loop
afterIterationNoCatch(scores, log, id, result) ==
    IF "error" \in DOMAIN result
    THEN [scores |-> scores, log |-> log, thrown |-> TRUE]
    ELSE [scores |-> MapSet(scores, id, result), log |-> log, thrown |-> FALSE]

\* one iteration of the for loop: try { set } catch { console.error }
afterIteration(scores, log, id, result) ==
    IF "error" \in DOMAIN result
    THEN [scores |-> scores, log |-> Append(log, id), thrown |-> FALSE]
    ELSE [scores |-> MapSet(scores, id, result), log |-> log, thrown |-> FALSE]

\* up to MaxCourses courses, each of some kind
CourseTables ==
    UNION {[{CourseIdList[i] : i \in 1..n} -> {Some(k) : k \in CourseKinds}] :
              n \in 0..MaxCourses}

InitAllReadiness ==
    /\ courseTable \in CourseTables
    /\ courseIds = <<>>
    /\ cursor = 0
    /\ readinessScores = <<>>
    /\ consoleErrors = <<>>
    /\ focusSessions \in {<<>>, <<[duration_minutes |-> 30, ended_at |-> -24]>>}
    /\ now = 0
    /\ ret = NoReturn
    /\ unitTasks = NoTasks
    /\ attemptRows = NoRows
    /\ courseRow = <<>>
    /\ unitRows = <<>>
    /\ incompleteTasks = <<>>
    /\ pc = "calculateAllReadiness"
    /\ SchedulerIdle
    /\ ScorerIdle
    /\ PlannerIdle
    /\ PracticeIdle

\* readiness.ts 212-221: the courses query; no course returns an empty Map
SelectCourses ==
    /\ pc = "calculateAllReadiness"
    /\ courseIds' = selectCourseIds(courseTable)
    /\ cursor' = 1
    /\ IF Len(selectCourseIds(courseTable)) = 0
       THEN /\ ret' = [scores |-> <<>>]
            /\ pc' = "done"
       ELSE /\ ret' = ret
            /\ pc' = "loop"
    /\ UNCHANGED <<courseTable, readinessScores, consoleErrors>>
    /\ UNCHANGED <<dbVars, plannerVars, practiceVars, schedulerVars, scorerVars>>

\* readiness.ts 223-230: one iteration of the loop
ScoreCourse ==
    /\ pc = "loop"
    /\ cursor <= Len(courseIds)
    /\ LET r == afterIteration(readinessScores, consoleErrors, courseIds[cursor],
                               readinessOf(courseTable, courseIds[cursor],
                                           focusSessions, now))
       IN  /\ readinessScores' = r.scores
           /\ consoleErrors' = r.log
           /\ IF r.thrown
              THEN /\ ret' = [thrown |-> CourseNotFound]
                   /\ pc' = "done"
              ELSE /\ ret' = ret
                   /\ pc' = "loop"
    /\ cursor' = cursor + 1
    /\ UNCHANGED <<courseTable, courseIds>>
    /\ UNCHANGED <<dbVars, plannerVars, practiceVars, schedulerVars, scorerVars>>

\* readiness.ts 232: return readinessScores
ReturnScores ==
    /\ pc = "loop"
    /\ cursor > Len(courseIds)
    /\ ret' = [scores |-> readinessScores]
    /\ pc' = "done"
    /\ UNCHANGED allReadinessVars
    /\ UNCHANGED <<dbVars, plannerVars, practiceVars, schedulerVars, scorerVars>>

\* the user deletes a course while the loop runs
DeleteCourse(id) ==
    /\ pc = "loop"
    /\ courseTable[id] # Null
    /\ courseTable' = [courseTable EXCEPT ![id] = Null]
    /\ UNCHANGED <<courseIds, cursor, readinessScores, consoleErrors>>
    /\ UNCHANGED <<dbVars, ret, pc>>
    /\ UNCHANGED <<plannerVars, practiceVars, schedulerVars, scorerVars>>

NextAllReadiness ==
    \/ SelectCourses
    \/ ScoreCourse
    \/ ReturnScores
    \/ \E id \in DOMAIN courseTable : DeleteCourse(id)

SpecAllReadiness == InitAllReadiness /\ [][NextAllReadiness]_vars

----------------------------------------------------------------------------
(* logQuestionAttempt, checkAndCreateRemediationTask, markErrorsRemediated *)

CallIds == {1, 2}

\* the frame of a call that is not running
IdleFrame ==
    [pc |-> "idle", unit |-> "", isCorrect |-> TRUE, attemptId |-> 0,
     unitName |-> "", recentErrors |-> 0, mastery |-> 0, tasksBefore |-> 0,
     result |-> "none"]

IdleCalls == [c \in CallIds |-> IdleFrame]

NoCallActive == \A c \in CallIds : calls[c].pc \in {"idle", "returned"}

\* question_attempts rows so far
AttemptsLogged ==
    LET Rows(u) == attemptTable[u].correct + attemptTable[u].incorrect IN
    Rows("u1") + Rows("u2")

\* the mutant of recentErrorsOf: remediated items are counted too
recentErrorsWithRemediated(items, u, clock) ==
    {x \in items :
        /\ x.course_unit_id = u
        /\ x.created_at >= clock - ErrorWindowDays * DayHours}

\* .eq('course_unit_id', courseUnitId).is('remediated_at', null)
\*   .gte('created_at', sevenDaysAgo.toISOString())
recentErrorsOf(items, u, clock) ==
    {x \in items :
        /\ x.course_unit_id = u
        /\ x.remediated_at = Null
        /\ x.created_at >= clock - ErrorWindowDays * DayHours}

\* .ilike('title', `%Review%${unit.unit_name}%`) on the titles of the model
TitleMatches(title, name) == title = ReviewTitle(name)

\* the open exam_build tasks of the unit whose title matches
matchingTasks(table, u, name) ==
    {i \in 1..Len(table) :
        /\ table[i].course_unit_id = u
        /\ table[i].task_type = "exam_build"
        /\ TitleMatches(table[i].title, name)
        /\ table[i].status \in {"todo", "in_progress"}}

\* .single(): the row when there is exactly one, null otherwise
existingTask(table, u, name) == Cardinality(matchingTasks(table, u, name)) = 1

\* the row checkAndCreateRemediationTask inserts
remediationTask(u, name) ==
    [course_unit_id |-> u, task_type |-> "exam_build",
     title |-> ReviewTitle(name), status |-> "todo"]

\* questions.ts 16-33: the call starts; without a user it returns an error
BeginCall(c, u, ok) ==
    /\ calls[c].pc \in {"idle", "returned"}
    /\ AttemptsLogged < MaxLoggedAttempts
    /\ calls' = [calls EXCEPT
                   ![c] = IF authUser
                          THEN [IdleFrame EXCEPT !.pc = "insert_attempt",
                                                 !.unit = u, !.isCorrect = ok,
                                                 !.tasksBefore = Len(taskTable)]
                          ELSE [IdleFrame EXCEPT !.pc = "returned",
                                                 !.unit = u, !.isCorrect = ok,
                                                 !.tasksBefore = Len(taskTable),
                                                 !.result = "Not authenticated"]]
    /\ UNCHANGED <<courseUnits, taskTable, attemptTable, errorLogItems>>

\* questions.ts 36-58: insert the question attempt
InsertAttempt(c) ==
    /\ calls[c].pc = "insert_attempt"
    /\ attemptTable' =
          [attemptTable EXCEPT
              ![calls[c].unit] =
                  IF calls[c].isCorrect
                  THEN [@ EXCEPT !.correct = @ + 1]
                  ELSE [@ EXCEPT !.incorrect = @ + 1]]
    /\ calls' = [calls EXCEPT
                   ![c].attemptId = AttemptsLogged + 1,
                   ![c].pc = IF calls[c].isCorrect THEN "read_mastery"
                             ELSE "insert_error"]
    /\ UNCHANGED <<courseUnits, taskTable, errorLogItems>>

\* questions.ts 61-72: an incorrect attempt goes to the error log
InsertErrorLogItem(c) ==
    /\ calls[c].pc = "insert_error"
    /\ errorLogItems' =
          errorLogItems \cup
             {[id |-> calls[c].attemptId, course_unit_id |-> calls[c].unit,
               created_at |-> now, remediated_at |-> Null]}
    /\ calls' = [calls EXCEPT ![c].pc = "read_unit"]
    /\ UNCHANGED <<courseUnits, taskTable, attemptTable>>

\* questions.ts 104-112: read the unit; return when there is none
ReadUnit(c) ==
    /\ calls[c].pc = "read_unit"
    /\ calls' = IF calls[c].unit \in DOMAIN courseUnits
                THEN [calls EXCEPT
                        ![c].unitName = courseUnits[calls[c].unit].unit_name,
                        ![c].pc = "count_errors"]
                ELSE [calls EXCEPT ![c].pc = "read_mastery"]
    /\ UNCHANGED <<courseUnits, taskTable, attemptTable, errorLogItems>>

\* questions.ts 114-132: count the recent unremediated errors
CountErrors(c) ==
    /\ calls[c].pc = "count_errors"
    /\ LET n == Cardinality(recentErrorsOf(errorLogItems, calls[c].unit, now))
       IN  calls' = [calls EXCEPT
                       ![c].recentErrors = n,
                       ![c].pc = IF n >= RemediationThreshold THEN "find_task"
                                 ELSE "read_mastery"]
    /\ UNCHANGED <<courseUnits, taskTable, attemptTable, errorLogItems>>

\* questions.ts 134-147: look for an open remediation task
FindTask(c) ==
    /\ calls[c].pc = "find_task"
    /\ calls' = [calls EXCEPT
                   ![c].pc = IF existingTask(taskTable, calls[c].unit,
                                             calls[c].unitName)
                             THEN "read_mastery" ELSE "insert_task"]
    /\ UNCHANGED <<courseUnits, taskTable, attemptTable, errorLogItems>>

\* questions.ts 149-169: create the remediation task
InsertTask(c) ==
    /\ calls[c].pc = "insert_task"
    /\ taskTable' = Append(taskTable,
                           remediationTask(calls[c].unit, calls[c].unitName))
    /\ calls' = [calls EXCEPT ![c].pc = "read_mastery"]
    /\ UNCHANGED <<courseUnits, attemptTable, errorLogItems>>

\* questions.ts 79, mastery.ts 76: calculateUnitMastery
ReadMastery(c) ==
    /\ calls[c].pc = "read_mastery"
    /\ calls' = [calls EXCEPT
                   ![c].mastery = unitMastery(taskTable, attemptTable,
                                              calls[c].unit),
                   ![c].pc = "write_mastery"]
    /\ UNCHANGED <<courseUnits, taskTable, attemptTable, errorLogItems>>

\* mastery.ts 78-84, questions.ts 81-88: write the mastery and return
WriteMastery(c) ==
    /\ calls[c].pc = "write_mastery"
    /\ courseUnits' = updatedUnits(courseUnits, calls[c].unit,
                                   calls[c].mastery, now)
    /\ calls' = [calls EXCEPT ![c].pc = "returned", ![c].result = "success"]
    /\ UNCHANGED <<taskTable, attemptTable, errorLogItems>>

\* a step of the call c
CallStep(c) ==
    \/ InsertAttempt(c)
    \/ InsertErrorLogItem(c)
    \/ ReadUnit(c)
    \/ CountErrors(c)
    \/ FindTask(c)
    \/ InsertTask(c)
    \/ ReadMastery(c)
    \/ WriteMastery(c)

\* questions.ts 179-209: markErrorsRemediated(courseUnitId)
MarkErrorsRemediated(u) ==
    /\ authUser
    /\ \E x \in errorLogItems : x.course_unit_id = u /\ x.remediated_at = Null
    /\ errorLogItems' =
          {IF x.course_unit_id = u /\ x.remediated_at = Null
           THEN [x EXCEPT !.remediated_at = Some(now)] ELSE x :
              x \in errorLogItems}
    /\ UNCHANGED <<courseUnits, taskTable, attemptTable>>

\* the user starts or completes a task
AdvanceTask(i) ==
    /\ taskTable[i].status # "completed"
    /\ taskTable' = [taskTable EXCEPT
                       ![i].status = IF @ = "todo" THEN "in_progress"
                                     ELSE "completed"]
    /\ UNCHANGED <<courseUnits, attemptTable, errorLogItems>>

\* time passes between two calls: a week, then a day at a time
DaysPass ==
    /\ now < MaxPracticeDays * DayHours
    /\ now' = IF now = 0 THEN ErrorWindowDays * DayHours ELSE now + DayHours

\* what the practice actions leave alone
PracticeFrame ==
    UNCHANGED <<unitTasks, attemptRows, courseRow, unitRows, incompleteTasks,
                focusSessions, ret, pc, plannerVars, allReadinessVars,
                schedulerVars, scorerVars>>

InitRemediation ==
    /\ authUser \in BOOLEAN
    /\ userProfile = <<>>
    /\ plannerRuns = <<>>
    /\ courseUnits = UnitRowsOf(Some(0), Null)
    /\ taskTable = <<[course_unit_id |-> "u1", task_type |-> "exam_build",
                      title |-> OtherTitle, status |-> "completed"]>>
    /\ attemptTable = [u \in UnitIds |-> NoRows]
    /\ errorLogItems = {}
    /\ calls = IdleCalls
    /\ now = 0
    /\ ret = NoReturn
    /\ unitTasks = NoTasks
    /\ attemptRows = NoRows
    /\ courseRow = <<>>
    /\ unitRows = <<>>
    /\ incompleteTasks = <<>>
    /\ focusSessions = <<>>
    /\ pc = "idle"
    /\ SchedulerIdle
    /\ ScorerIdle
    /\ AllReadinessIdle

\* a sequential history: a call starts when no call is running, and the
\* other actions happen between calls; the attempts on unit u2 are incorrect
\* ones, those on unit u1 of both kinds
NextRemediation ==
    \/ \E u \in UnitIds, ok \in BOOLEAN :
          /\ u = "u2" => ~ok
          /\ NoCallActive /\ BeginCall(1, u, ok) /\ now' = now /\ PracticeFrame
    \/ \E c \in CallIds : CallStep(c) /\ now' = now /\ PracticeFrame
    \/ \E u \in UnitIds :
          /\ NoCallActive
          /\ MarkErrorsRemediated(u)
          /\ calls' = IdleCalls /\ now' = now /\ PracticeFrame
    \/ \E i \in 1..Len(taskTable) :
          /\ NoCallActive
          /\ AdvanceTask(i)
          /\ calls' = IdleCalls /\ now' = now /\ PracticeFrame
    \/ /\ NoCallActive
       /\ DaysPass
       /\ calls' = IdleCalls
       /\ UNCHANGED <<courseUnits, taskTable, attemptTable, errorLogItems>>
       /\ PracticeFrame

SpecRemediation == InitRemediation /\ [][NextRemediation]_vars

----------------------------------------------------------------------------
(* logFocusSession and updateStreak *)

\* the multiplier of a task type, in tenths: 1.0, 1.2 or 1.5
multiplierTenths(taskType) ==
    IF taskType = "exam_build" THEN 12
    ELSE IF taskType = "timed_practice" THEN 15
    ELSE 10

\* Math.round(baseXP * multiplier)
xpEarned(durationMinutes, taskType) ==
    RoundDiv(durationMinutes * XpPerMinute * multiplierTenths(taskType), 10)

\* the users row after the XP update; no row, no update
withXp(profile, xp) ==
    IF profile = Null THEN profile
    ELSE LET newTotalXP == profile[1].total_xp + xp IN
         Some([profile[1] EXCEPT !.total_xp = newTotalXP,
                                 !.current_level = (newTotalXP \div XpPerLevel) + 1])

\* updateStreak on the sessions after the insert (oldest first, so the row
\* before the last is lastSession[1])
withStreak(profile, sessions, clock) ==
    IF profile = Null THEN profile
    ELSE IF Len(sessions) < 2
    THEN Some([profile[1] EXCEPT !.current_streak = 1, !.longest_streak = 1])
    ELSE LET daysDiff == (clock \div DayHours)
                           - (sessions[Len(sessions) - 1].ended_at \div DayHours)
             newStreak == IF daysDiff = 1 THEN profile[1].current_streak + 1
                          ELSE IF daysDiff > 1 THEN 1
                          ELSE profile[1].current_streak
         IN  Some([profile[1] EXCEPT
                     !.current_streak = newStreak,
                     !.longest_streak = Max(newStreak, @)])

\* the tasks row with the id, Null when there is none (.single())
taskOf(table, taskId) ==
    IF taskId \in 1..Len(table) THEN Some(table[taskId]) ELSE Null

\* the focus_sessions row logFocusSession inserts; course_unit_id "" is null
sessionRow(task, taskId, durationMinutes, clock) ==
    [task_id |-> taskId,
     course_unit_id |-> IF task = Null THEN "" ELSE task[1].course_unit_id,
     duration_minutes |-> durationMinutes,
     xp_earned |-> xpEarned(durationMinutes,
                            IF task = Null THEN "none" ELSE task[1].task_type),
     ended_at |-> clock]

\* .update({ status: 'completed' }).eq('id', taskId)
withTaskCompleted(table, taskId) ==
    [i \in 1..Len(table) |->
        IF i = taskId THEN [table[i] EXCEPT !.status = "completed"]
        ELSE table[i]]

\* part_001 155-263: logFocusSession(taskId, durationMinutes, completedTask);
\* taskId 0 stands for null
LogFocusSession(taskId, durationMinutes, completedTask) ==
    /\ Len(focusSessions) < MaxSessions
    /\ IF ~authUser
       THEN /\ ret' = NotAuthenticated
            /\ UNCHANGED <<focusSessions, userProfile, taskTable>>
       ELSE LET task == taskOf(taskTable, taskId)
                row == sessionRow(task, taskId, durationMinutes, now)
                sessions == Append(focusSessions, row)
            IN  /\ focusSessions' = sessions
                /\ userProfile' =
                      withStreak(withXp(userProfile, row.xp_earned), sessions, now)
                /\ taskTable' = IF taskId # 0 /\ completedTask
                                THEN withTaskCompleted(taskTable, taskId)
                                ELSE taskTable
                /\ ret' = [success |-> TRUE, xpEarned |-> row.xp_earned]
    /\ pc' = "logFocusSession"
    /\ calls' = IdleCalls
    /\ UNCHANGED <<courseUnits, attemptTable, errorLogItems, now>>
    /\ UNCHANGED <<unitTasks, attemptRows, courseRow, unitRows, incompleteTasks>>
    /\ UNCHANGED <<authUser, plannerRuns, allReadinessVars, schedulerVars, scorerVars>>

\* what a step of logQuestionAttempt leaves alone in the study histories
StudyFrame ==
    UNCHANGED <<unitTasks, attemptRows, courseRow, unitRows, incompleteTasks,
                focusSessions, now, plannerVars, allReadinessVars, schedulerVars,
                scorerVars>>

\* a day passes between two calls
StudyDayPasses ==
    /\ NoCallActive
    /\ now < MaxStudyDays * DayHours
    /\ now' = now + DayHours
    /\ calls' = IdleCalls
    /\ pc' = "idle"
    /\ ret' = NoReturn
    /\ UNCHANGED <<courseUnits, taskTable, attemptTable, errorLogItems>>
    /\ UNCHANGED <<unitTasks, attemptRows, courseRow, unitRows, incompleteTasks,
                   focusSessions, plannerVars, allReadinessVars, schedulerVars,
                   scorerVars>>

StudyDurations == {25}

\* the users row of a student who has not studied yet
NewStudent ==
    [total_xp |-> 950, current_level |-> 1, current_streak |-> 0,
     longest_streak |-> 0]

\* the tasks the study histories start from: two tasks of unit u1 and a task
\* without a unit
StudyTasks ==
    << [course_unit_id |-> "u1", task_type |-> "exam_build",
        title |-> OtherTitle, status |-> "todo"],
       [course_unit_id |-> "u1", task_type |-> "assignment_work",
        title |-> OtherTitle, status |-> "in_progress"],
       [course_unit_id |-> "", task_type |-> "timed_practice",
        title |-> OtherTitle, status |-> "todo"] >>

\* the question attempts before the study histories: two incorrect ones on
\* unit u1, with their error-log items
StudyAttempts ==
    [u \in UnitIds |-> IF u = "u1" THEN [correct |-> 0, incorrect |-> 2]
                       ELSE NoRows]

StudyErrors ==
    {[id |-> k, course_unit_id |-> "u1", created_at |-> 0,
      remediated_at |-> Null] : k \in 1..2}

\* the mastery stored for every unit is the calculated one: every task and
\* attempt so far went through updateUnitMastery
InitStudy ==
    /\ authUser \in BOOLEAN
    /\ userProfile = Some(NewStudent)
    /\ plannerRuns = <<>>
    /\ taskTable = StudyTasks
    /\ attemptTable = StudyAttempts
    /\ courseUnits =
          [u \in UnitIds |->
              [unit_name |-> UnitName(u), course_id |-> "c1",
               mastery_score |-> Some(unitMastery(StudyTasks, StudyAttempts, u)),
               last_studied_at |-> IF u = "u1" THEN Some(0) ELSE Null]]
    /\ errorLogItems = StudyErrors
    /\ calls = IdleCalls
    /\ focusSessions = <<>>
    /\ now = 0
    /\ ret = NoReturn
    /\ unitTasks = NoTasks
    /\ attemptRows = NoRows
    /\ courseRow = <<>>
    /\ unitRows = <<>>
    /\ incompleteTasks = <<>>
    /\ pc = "idle"
    /\ SchedulerIdle
    /\ ScorerIdle
    /\ AllReadinessIdle

\* sequential histories of logFocusSession and logQuestionAttempt
NextStudy ==
    \/ \E taskId \in 0..Len(taskTable), d \in StudyDurations, done \in BOOLEAN :
          NoCallActive /\ LogFocusSession(taskId, d, done)
    \/ \E ok \in BOOLEAN :
          /\ NoCallActive
          /\ AttemptsLogged < Cardinality(StudyErrors) + MaxStudyAttempts
          /\ BeginCall(1, "u1", ok)
          /\ pc' = "logQuestionAttempt"
          /\ ret' = NoReturn
          /\ StudyFrame
    \/ \E c \in CallIds : CallStep(c) /\ UNCHANGED <<pc, ret>> /\ StudyFrame
    \/ StudyDayPasses

SpecStudy == InitStudy /\ [][NextStudy]_vars

----------------------------------------------------------------------------
(* Concurrent logQuestionAttempt calls *)

\* the tasks before the calls: one completed task of unit u1
ConcurrentTasks ==
    << [course_unit_id |-> "u1", task_type |-> "exam_build",
        title |-> OtherTitle, status |-> "completed"] >>

\* two incorrect attempts on unit u1 were logged before, one after the other
InitConcurrent ==
    /\ authUser = TRUE
    /\ userProfile = <<>>
    /\ plannerRuns = <<>>
    /\ taskTable = ConcurrentTasks
    /\ attemptTable = StudyAttempts
    /\ courseUnits =
          [u \in UnitIds |->
              [unit_name |-> UnitName(u), course_id |-> "c1",
               mastery_score |-> Some(unitMastery(ConcurrentTasks,
                                                  StudyAttempts, u)),
               last_studied_at |-> IF u = "u1" THEN Some(0) ELSE Null]]
    /\ errorLogItems = StudyErrors
    /\ calls = IdleCalls
    /\ focusSessions = <<>>
    /\ now = 0
    /\ ret = NoReturn
    /\ unitTasks = NoTasks
    /\ attemptRows = NoRows
    /\ courseRow = <<>>
    /\ unitRows = <<>>
    /\ incompleteTasks = <<>>
    /\ pc = "idle"
    /\ SchedulerIdle
    /\ ScorerIdle
    /\ AllReadinessIdle

\* every call starts once, at any time, and the steps of the calls interleave
NextConcurrent ==
    \/ \E c \in CallIds, ok \in BOOLEAN :
          /\ calls[c].pc = "idle"
          /\ BeginCall(c, "u1", ok)
          /\ now' = now
          /\ PracticeFrame
    \/ \E c \in CallIds : CallStep(c) /\ now' = now /\ PracticeFrame

SpecConcurrent == InitConcurrent /\ [][NextConcurrent]_vars

----------------------------------------------------------------------------
(* Properties of scheduleTasks *)

LaneIds(lane) == [i \in 1..Len(lane.tasks) |-> lane.tasks[i].id]

InLane(lane, t) == \E i \in 1..Len(lane.tasks) : lane.tasks[i].id = t.id

InInput(t) == \E i \in 1..Len(scoredTasks) : scoredTasks[i] = t

NoDuplicates(s) == \A i, j \in 1..Len(s) : s[i] = s[j] => i = j

\* C1: every lane of the plan, at every point of the allocation and in the
\* returned plan, holds at most 5 tasks; Due Soon too, after the overflow fill.
C1_LaneCap ==
    /\ \A i \in 1..3 : Len(lanes[i].tasks) <= 5
    /\ pc = "done" => \A i \in 1..3 : Len(plan.lanes[i].tasks) <= 5

\* C1 witness: a returned plan whose Due Soon lane was filled to 5 by the
\* overflow fill while one more urgent exam_build task would still have fitted
\* the budget.
C1_Witness ==
    /\ pc = "done"
    /\ Len(plan.lanes[1].tasks) = 5
    /\ \E i \in 1..5 : plan.lanes[1].tasks[i].task_type = "exam_build"
    /\ \E i \in 1..Len(scoredTasks) :
          /\ scoredTasks[i].task_type = "exam_build"
          /\ scoredTasks[i].urgencyScore > 5000
          /\ ~InLane(plan.lanes[1], scoredTasks[i])
          /\ 10 * (plan.lanes[1].totalMinutes + scoredTasks[i].estimated_minutes)
               <= 12 * plan.lanes[1].targetMinutes

\* C2: each lane's totalMinutes is the sum of the estimates of its admitted
\* tasks and is at most 1.2 x its targetMinutes, and targetMinutes stays the
\* budget computed from the daily target on entry.
C2_LaneBudget ==
    /\ \A i \in 1..3 :
          /\ lanes[i].totalMinutes = SumMinutes(lanes[i].tasks)
          /\ 10 * lanes[i].totalMinutes <= 12 * lanes[i].targetMinutes
          /\ lanes[i].targetMinutes =
                InitialLanes(targetStudyMinutesPerDay)[i].targetMinutes
    /\ pc = "done" =>
          /\ plan.lanes = lanes
          /\ plan.totalMinutes =
                SumMinutes(lanes[1].tasks) + SumMinutes(lanes[2].tasks)
                  + SumMinutes(lanes[3].tasks)

\* C2 witness: a returned plan with a lane that uses the overage (its total
\* is above its target) and that turned a task of its pool away on budget.
C2_Witness ==
    /\ pc = "done"
    /\ \E i \in 1..3 :
          /\ plan.lanes[i].totalMinutes > plan.lanes[i].targetMinutes
          /\ Len(plan.lanes[i].tasks) < 5
          /\ \E k \in 1..Len(scoredTasks) :
                /\ scoredTasks[k].task_type = plan.lanes[i].name
                /\ \A j \in 1..3 : ~InLane(plan.lanes[j], scoredTasks[k])

\* C3: no task id occurs twice in the three lanes taken together.
C3_NoDoubleAllocation ==
    NoDuplicates(LaneIds(lanes[1]) \o LaneIds(lanes[2]) \o LaneIds(lanes[3]))

\* C3 witness: a returned plan where the overflow fill put an exam_build task
\* in Due Soon and the Exam Build lane admitted other exam_build tasks.
C3_Witness ==
    /\ pc = "done"
    /\ \E i \in 1..Len(plan.lanes[1].tasks) :
          plan.lanes[1].tasks[i].task_type = "exam_build"
    /\ Len(plan.lanes[2].tasks) > 0

----------------------------------------------------------------------------
(* Properties of scoreTask and scoreTasks *)

\* the input task a scored entry was made from
InputOf(entry) == tasks[entry.id]

\* C4: scoreTasks returns one entry per input task, each the input task with
\* its scores, ordered by non-increasing totalScore, entries of equal
\* totalScore in their input order (the id is the input position).
C4_SortedStablePermutation ==
    pc = "done" =>
        /\ Len(scored) = Len(tasks)
        /\ \A k \in 1..Len(tasks) :
              Cardinality({i \in 1..Len(scored) : scored[i].id = k}) = 1
        /\ \A i \in 1..Len(scored) :
              /\ scored[i].task_type = InputOf(scored[i]).task_type
              /\ scored[i].due_date = InputOf(scored[i]).due_date
              /\ scored[i].estimated_minutes = InputOf(scored[i]).estimated_minutes
              /\ scored[i].course_unit_id = InputOf(scored[i]).course_unit_id
        /\ \A i, j \in 1..Len(scored) :
              i < j =>
                /\ scored[i].totalScore >= scored[j].totalScore
                /\ scored[i].totalScore = scored[j].totalScore
                      => scored[i].id < scored[j].id

\* C4 witness: a sorted list in which the sort moved a task forward and two
\* tasks of equal score are adjacent.
C4_Witness ==
    /\ pc = "done"
    /\ Len(scored) = 4
    /\ scored[1].id = 3
    /\ scored[1].totalScore > scored[2].totalScore
    /\ scored[2].totalScore = scored[3].totalScore
    /\ scored[3].totalScore > scored[4].totalScore

\* the urgency of a task due at hour due, seen at hour current
UrgencyAt(due, current) == calculateUrgency(Some(due), current)

\* C8: urgency is exactly 10 with no due date and 100 when the due date is
\* not after the current date; for a due date d >= 0 whole days ahead it is
\* 100 e^(-d/7), between 36.5 and 37.5 at d = 7; it does not increase as the
\* due date moves away and it lies in [0, 100]; the reported urgencyScore is
\* that value rounded to two decimals.
C8_Urgency ==
    /\ \A i \in 1..Len(tasks) :
          LET due == tasks[i].due_date
              current == context.currentDate
              u == calculateUrgency(due, current)
          IN  /\ due = Null => u = 10 * Micro
              /\ due # Null /\ due[1] <= current => u = 100 * Micro
              /\ \A d \in 0..MaxDueDays :
                    due = Some(current + d * 24) => u = ExpDecayTable[d + 1]
              /\ due = Some(current + 7 * 24)
                    => 365 * Micro <= 10 * u /\ 10 * u <= 375 * Micro
              /\ 0 <= u /\ u <= 100 * Micro
              /\ pc = "done" =>
                    \A k \in 1..Len(scored) :
                        scored[k].id = i
                            => scored[k].urgencyScore = RoundDiv(u, 100)
    /\ \A d \in -1..(MaxDueDays - 1) :
          UrgencyAt(d * 24, context.currentDate)
              >= UrgencyAt((d + 1) * 24, context.currentDate)

\* C8 witness: one scored list with a task without due date at 10, an
\* overdue task at 100 and a task due in 7 days at 36.79.
C8_Witness ==
    /\ pc = "done"
    /\ context.currentDate = 0
    /\ \E i, j, k \in 1..Len(scored) :
          /\ scored[i].due_date = Null /\ scored[i].urgencyScore = 1000
          /\ scored[j].due_date = Some(-24) /\ scored[j].urgencyScore = 10000
          /\ scored[k].due_date = Some(7 * 24) /\ scored[k].urgencyScore = 3679

\* C9 as stated: totalScore is the weighted sum of the four reported
\* (rounded) sub-scores, rounded to two decimals.
C9_TotalFromRoundedScores ==
    pc = "done" =>
        \A i \in 1..Len(scored) :
            scored[i].totalScore =
                RoundDiv(40 * scored[i].urgencyScore
                           + 35 * scored[i].importanceScore
                           + 15 * scored[i].weaknessBonus
                           + 10 * scored[i].recencyBonus, 100)

\* C9 amended: totalScore is the weighted sum of the four unrounded
\* sub-scores, rounded once to two decimals; each reported sub-score is its
\* unrounded value rounded to two decimals on its own.
C9_TotalFromUnroundedScores ==
    pc = "done" =>
        \A i \in 1..Len(scored) :
            LET t == InputOf(scored[i])
                u == calculateUrgency(t.due_date, context.currentDate)
                m == calculateImportance(t, context)
                w == calculateWeaknessBonus(t, context) * Micro
                r == calculateRecencyBonus(t, context) * Micro
            IN  /\ scored[i].totalScore =
                      RoundDiv(40 * u + 35 * m + 15 * w + 10 * r, 100 * 100)
                /\ scored[i].urgencyScore = RoundDiv(u, 100)
                /\ scored[i].importanceScore = RoundDiv(m, 100)
                /\ scored[i].weaknessBonus = RoundDiv(w, 100)
                /\ scored[i].recencyBonus = RoundDiv(r, 100)

\* C9 witness: a task due in 6 days whose totalScore differs from the
\* weighted sum of its reported sub-scores.
C9_Witness ==
    /\ pc = "done"
    /\ Len(scored) = 1
    /\ scored[1].due_date = Some(context.currentDate + 6 * 24)
    /\ scored[1].urgencyScore = 4244
    /\ scored[1].totalScore #
          RoundDiv(40 * scored[1].urgencyScore + 35 * scored[1].importanceScore
                     + 15 * scored[1].weaknessBonus
                     + 10 * scored[1].recencyBonus, 100)

\* C10: every scored task has urgencyScore and importanceScore in [0,100],
\* weaknessBonus in [0,50], recencyBonus in [0,25] and totalScore in [0,100].
C10_ScoreRanges ==
    pc = "done" =>
        \A i \in 1..Len(scored) :
            /\ 0 <= scored[i].urgencyScore /\ scored[i].urgencyScore <= 10000
            /\ 0 <= scored[i].importanceScore
            /\ scored[i].importanceScore <= 10000
            /\ 0 <= scored[i].weaknessBonus /\ scored[i].weaknessBonus <= 5000
            /\ 0 <= scored[i].recencyBonus /\ scored[i].recencyBonus <= 2500
            /\ 0 <= scored[i].totalScore /\ scored[i].totalScore <= 10000

\* C10 witness: a task that reaches the top of three ranges at once: overdue
\* (urgency 100), unit mastery below 30 (weakness 50), unit studied 7 or more
\* days ago (recency 25).
C10_Witness ==
    /\ pc = "done"
    /\ \E i \in 1..Len(scored) :
          /\ scored[i].urgencyScore = 10000
          /\ scored[i].weaknessBonus = 5000
          /\ scored[i].recencyBonus = 2500
          /\ scored[i].importanceScore > 9000


----------------------------------------------------------------------------
(* Properties of calculateUnitMastery *)

\* m is num / den rounded to the nearest integer, a half rounded up
IsRounded(m, num, den) ==
    /\ 2 * (m * den - num) <= den
    /\ 2 * (num - m * den) < den

----------------------------------------------------------------------------
(* Properties of calculateReadiness *)

\* how many units are at mastery 50 or more, and how many were studied in
\* the last 14 days
ProficientUnits ==
    Cardinality({i \in 1..Len(unitRows) :
                    /\ unitRows[i].mastery_score # Null
                    /\ unitRows[i].mastery_score[1] >= 50})

RecentUnits ==
    Cardinality({i \in 1..Len(unitRows) :
                    /\ unitRows[i].last_studied_at # Null
                    /\ unitRows[i].last_studied_at[1] >= now - 14 * 24})

RemainingMinutes == SumEstimates(incompleteTasks)

SessionsInWindow ==
    {i \in 1..Len(focusSessions) : focusSessions[i].ended_at >= now - 30 * 24}

AverageDaily ==
    IF SessionsInWindow = {} THEN [num |-> 60, den |-> 1]
    ELSE [num |-> SumDurations(recentSessions(focusSessions, now)),
          den |-> Min(30, Cardinality(SessionsInWindow))]

DaysLeft == Max(0, CeilDiv(courseRow[1].exam_date - now, 24))

\* (R / A) / D <= twentieths / 20
RatioAtMost(twentieths) ==
    20 * RemainingMinutes * AverageDaily.den
        <= twentieths * AverageDaily.num * DaysLeft

----------------------------------------------------------------------------
(* Properties of the four sub-scores of scoreTask *)

\* the unit of a scored task is in the units map
KnownUnit(entry) ==
    /\ entry.course_unit_id # NoUnit
    /\ entry.course_unit_id \in DOMAIN context.units

\* the unit of a scored task is in the units map and its course in the
\* courses map
KnownCourse(entry) ==
    /\ KnownUnit(entry)
    /\ context.units[entry.course_unit_id].course_id \in DOMAIN context.courses

\* the base importance of a task type, in hundredths
BaseOf(entry) ==
    IF entry.task_type = "assignment_work" THEN 7000
    ELSE IF entry.task_type = "exam_build" THEN 5000
    ELSE 3000

\* C11: a task whose course_unit_id is not in the units map, or whose unit's
\* course_id is not in the courses map, is scored without error with
\* weaknessBonus 0, recencyBonus 15 and the base importance of its type.
C11_UnknownUnitNeutral ==
    pc = "done"
    => \A k \in 1..Len(scored) :
          scored[k].course_unit_id # NoUnit /\ ~KnownCourse(scored[k])
          => /\ scored[k].weaknessBonus = 0
             /\ scored[k].recencyBonus = 1500
             /\ scored[k].importanceScore = BaseOf(scored[k])

\* whole days since the unit of a scored task was last studied
DaysSinceStudied(entry) ==
    (context.currentDate
       - context.units[entry.course_unit_id].last_studied_at[1]) \div 24

NeverStudied(entry) ==
    context.units[entry.course_unit_id].last_studied_at = <<>>

\* C12 as stated: for a task of a known unit the recencyBonus is 0 at day 0
\* and day 1 since the unit was studied, 10 at day 2, rises linearly to 20
\* at day 6, and is 25 at day 7 and beyond and for a unit never studied.
C12_RecencyRampToTwenty ==
    pc = "done"
    => \A k \in 1..Len(scored) :
          KnownUnit(scored[k])
          => LET r == scored[k].recencyBonus IN
             IF NeverStudied(scored[k]) THEN r = 2500
             ELSE LET d == DaysSinceStudied(scored[k]) IN
                  /\ d \in {0, 1} => r = 0
                  /\ d \in 2..6 => r = 1000 + 250 * (d - 2)
                  /\ d >= 7 => r = 2500

\* C12 amended: for a task of a known unit the recencyBonus is 0 at day 0
\* and day 1 since the unit was studied, 10 at day 2, rises by 2 a day to 18
\* at day 6, and is 25 at day 7 and beyond and for a unit never studied.
C12_RecencyRampToEighteen ==
    pc = "done"
    => \A k \in 1..Len(scored) :
          KnownUnit(scored[k])
          => LET r == scored[k].recencyBonus IN
             IF NeverStudied(scored[k]) THEN r = 2500
             ELSE LET d == DaysSinceStudied(scored[k]) IN
                  /\ d \in {0, 1} => r = 0
                  /\ d = 2 => r = 1000
                  /\ d \in 2..6 => r = 1000 + 200 * (d - 2)
                  /\ d = 6 => r = 1800
                  /\ d >= 7 => r = 2500

\* C12 witness: a task of a unit studied 6 days ago is scored with
\* recencyBonus 18.
C12_Witness ==
    /\ pc = "done"
    /\ Len(scored) = 1
    /\ KnownUnit(scored[1])
    /\ ~NeverStudied(scored[1])
    /\ DaysSinceStudied(scored[1]) = 6
    /\ scored[1].recencyBonus = 1800

DaysUntilExamOf(entry) ==
    LET exam == context.courses[
                    context.units[entry.course_unit_id].course_id].exam_date
    IN  -((context.currentDate - exam) \div 24)

\* C14: calculateImportance is the base value of the task type (70, 50, 30)
\* plus 30 * (1 - daysUntilExam / 30) when the exam of the course of the
\* task's unit is 1 to 30 days away, daysUntilExam the ceiling of the day
\* difference, and plus 0 when the exam is today, past or more than 30 days
\* away; it never exceeds 100.
C14_Importance ==
    /\ \A i \in 1..Len(tasks) :
          LET imp == calculateImportance(tasks[i], context)
              base == BaseOf(tasks[i]) * 100
          IN  /\ imp <= 100 * Micro
              /\ KnownCourse(tasks[i]) /\ DaysUntilExamOf(tasks[i]) \in 1..30
                    => imp = base + (30 - DaysUntilExamOf(tasks[i])) * Micro
              /\ KnownCourse(tasks[i]) /\ DaysUntilExamOf(tasks[i]) \notin 1..30
                    => imp = base
    /\ pc = "done"
       => \A k \in 1..Len(scored) :
             scored[k].importanceScore
                = RoundDiv(calculateImportance(InputOf(scored[k]), context), 100)

\* C14 witness: an assignment_work task whose exam is one day away (the
\* clock at noon of the day before) is scored with importance 99.
C14_Witness ==
    /\ pc = "done"
    /\ Len(scored) = 1
    /\ scored[1].task_type = "assignment_work"
    /\ KnownCourse(scored[1])
    /\ context.currentDate = 12
    /\ DaysUntilExamOf(scored[1]) = 1
    /\ scored[1].importanceScore = 9900


----------------------------------------------------------------------------
(* Properties of the lane budgets *)

\* the targetMinutes of the three lanes of the returned plan
PlanTargets == [i \in 1..3 |-> plan.lanes[i].targetMinutes]

\* C15: for every daily target t the returned plan has lane targetMinutes
\* round(t * 0.65), round(t * 0.25) and round(t * 0.10), whatever the task
\* list; for t = 120 they are 78, 30 and 12.
C15_LaneTargets ==
    pc = "done" /\ plan # NoPlan
    => /\ IsRounded(PlanTargets[1], 65 * targetStudyMinutesPerDay, 100)
       /\ IsRounded(PlanTargets[2], 25 * targetStudyMinutesPerDay, 100)
       /\ IsRounded(PlanTargets[3], 10 * targetStudyMinutesPerDay, 100)
       /\ targetStudyMinutesPerDay = 120 => PlanTargets = <<78, 30, 12>>

\* C15 witness: a plan for the target 120 with a task in it and the lane
\* targets 78, 30 and 12.
C15_Witness ==
    /\ pc = "done"
    /\ plan # NoPlan
    /\ targetStudyMinutesPerDay = 120
    /\ Len(plan.lanes[1].tasks) = 1
    /\ PlanTargets = <<78, 30, 12>>

\* C16: for every positive integer daily target each of the three lanes'
\* targetMinutes in the returned plan is strictly positive.
C16_PositiveLaneTargets ==
    pc = "done" /\ plan # NoPlan /\ targetStudyMinutesPerDay > 0
    => \A i \in 1..3 : PlanTargets[i] > 0


----------------------------------------------------------------------------
(* Properties of generateDailyPlan *)

\* the daily target generateDailyPlan works with
DailyTarget ==
    IF userProfile = <<>> THEN 120
    ELSE IF userProfile[1].target_study_minutes_per_day \in {<<>>, <<0>>} THEN 120
    ELSE userProfile[1].target_study_minutes_per_day[1]

\* C17: with no incomplete task generateDailyPlan returns success with three
\* empty lanes, every lane's totalMinutes 0, plan totalMinutes 0 and each
\* lane's targetMinutes the budget scheduleTasks gives for the same target:
\* round(t * 0.65), round(t * 0.25), round(t * 0.10), for every target t.
C17_EmptyPlanAtBudgets ==
    pc = "done" /\ authUser /\ tasks = <<>>
    => /\ ret.success
       /\ Len(ret.plan.lanes) = 3
       /\ ret.plan.totalMinutes = 0
       /\ \A i \in 1..3 :
             /\ ret.plan.lanes[i].tasks = <<>>
             /\ ret.plan.lanes[i].totalMinutes = 0
             /\ ret.plan.lanes[i].targetMinutes
                   = 100 * scheduleTasks(<<>>, DailyTarget).lanes[i].targetMinutes


----------------------------------------------------------------------------
(* Properties of calculateUnitMastery and updateUnitMastery *)

\* C18: calculateUnitMastery writes nothing: it leaves every unit's
\* mastery_score and last_studied_at, the tasks and the attempts as they
\* were, and called again for the same unit with nothing changed in between
\* it returns the same integer.  Only updateUnitMastery writes: it sets the
\* unit's mastery_score to the computed value and its last_studied_at to the
\* current time, and changes no other unit.
C18_OnlyUpdateWrites ==
    [][ /\ pc' = "calculateUnitMastery"
           => /\ courseUnits' = courseUnits
              /\ taskTable' = taskTable
              /\ attemptTable' = attemptTable
              /\ pc = "calculateUnitMastery" /\ ret.unit = ret'.unit
                    => ret'.mastery = ret.mastery
        /\ pc' = "updateUnitMastery"
           => /\ courseUnits'[ret'.unit].mastery_score
                    = <<calculateUnitMastery(TaskCountsOf(taskTable, ret'.unit),
                                             AttemptsAsRead(attemptTable, ret'.unit))>>
              /\ pc = "calculateUnitMastery" /\ ret.unit = ret'.unit
                    => courseUnits'[ret'.unit].mastery_score = <<ret.mastery>>
              /\ courseUnits'[ret'.unit].last_studied_at = <<now>>
              /\ courseUnits'[ret'.unit].unit_name = courseUnits[ret'.unit].unit_name
              /\ \A x \in UnitIds \ {ret'.unit} : courseUnits'[x] = courseUnits[x]
              /\ taskTable' = taskTable
              /\ attemptTable' = attemptTable
        /\ courseUnits' # courseUnits => pc' = "updateUnitMastery"
      ]_vars

\* C18 witness: updateUnitMastery has run for unit u1 a day after the start:
\* u1 holds the computed mastery 50 and the time of the call, u2 is as it was.
C18_Witness ==
    /\ pc = "updateUnitMastery"
    /\ ret.unit = "u1"
    /\ now = 24
    /\ TaskCountsOf(taskTable, "u1") = [todo |-> 1, in_progress |-> 0, completed |-> 1]
    /\ courseUnits["u1"].mastery_score = <<50>>
    /\ courseUnits["u1"].last_studied_at = <<24>>
    /\ courseUnits["u2"].mastery_score = <<40>>
    /\ courseUnits["u2"].last_studied_at = <<-24>>


----------------------------------------------------------------------------
(* Properties of calculateAllReadiness *)

\* the ids of the courses the loop has gone through
Processed == {courseIds[i] : i \in 1..Min(cursor - 1, Len(courseIds))}

Reported == {consoleErrors[i] : i \in 1..Len(consoleErrors)}

\* C19: calculateAllReadiness goes through every course of the user: when
\* calculateReadiness throws for a course, the failure is reported for that
\* course only, every other course is scored and is in the returned map, and
\* calculateAllReadiness does not throw.
C19_FailuresIsolated ==
    /\ pc = "loop"
       => /\ DOMAIN readinessScores \cup Reported = Processed
          /\ DOMAIN readinessScores \cap Reported = {}
    /\ pc = "done"
       => /\ "scores" \in DOMAIN ret
          /\ DOMAIN ret.scores \cup Reported
                = {courseIds[i] : i \in 1..Len(courseIds)}
          /\ DOMAIN ret.scores \cap Reported = {}
          /\ Len(consoleErrors) = Cardinality(Reported)
          /\ \A id \in Reported : courseTable[id] = <<>>
          /\ \A id \in DOMAIN ret.scores : ret.scores[id].totalScore \in 0..100

\* C19 witness: of three courses the second was deleted before its turn: it
\* is reported, and the first and the third are in the returned map.
C19_Witness ==
    /\ pc = "done"
    /\ courseIds = <<"c1", "c2", "c3">>
    /\ consoleErrors = <<"c2">>
    /\ DOMAIN ret.scores = {"c1", "c3"}

----------------------------------------------------------------------------
(* Properties of logQuestionAttempt *)

\* the call that has just returned successfully
Returned(c) == calls[c].pc = "returned" /\ calls[c].result = "success"

\* the open exam_build tasks of the unit titled 'Review: <unit name>'
OpenReviewTasks(u) ==
    {i \in 1..Len(taskTable) :
        /\ taskTable[i].course_unit_id = u
        /\ taskTable[i].task_type = "exam_build"
        /\ taskTable[i].title = ReviewTitle(UnitName(u))
        /\ taskTable[i].status \in {"todo", "in_progress"}}

\* the unremediated error-log items of the unit created in the last 7 days
ErrorsLeft(u) ==
    Cardinality({x \in errorLogItems :
                    /\ x.course_unit_id = u
                    /\ x.remediated_at = Null
                    /\ now - x.created_at <= ErrorWindowDays * DayHours})

----------------------------------------------------------------------------
(* Properties of logFocusSession *)

\* the unit of the task the last logged session was for, "" when none
SessionUnit ==
    IF focusSessions = <<>> THEN ""
    ELSE focusSessions[Len(focusSessions)].course_unit_id

\* the stored mastery of the unit is the calculated one
MasteryCurrent(u) ==
    courseUnits[u].mastery_score = Some(unitMastery(taskTable, attemptTable, u))

\* C21: when logFocusSession has completed for a task linked to a unit, and
\* when logQuestionAttempt has completed, the stored mastery_score of the unit
\* equals calculateUnitMastery over the unit's current tasks and attempts.
C21_MasteryRecalculated ==
    /\ (pc = "logFocusSession" /\ ret.success /\ SessionUnit \in UnitIds)
          => MasteryCurrent(SessionUnit)
    /\ \A c \in CallIds : Returned(c) => MasteryCurrent(calls[c].unit)

----------------------------------------------------------------------------
(* Properties of the Due Soon overflow fill *)

\* an exam_build task with urgencyScore > 50
UrgentExam(t) == t.task_type = "exam_build" /\ IsUrgent(t)

\* the estimates of the Due Soon tasks that were in the lane when the task
\* at position k of the input came, or would have come, up in the overflow
\* fill: the assignments, and the exam_build tasks from before position k
MomentTotal(lane, k) ==
    LET Before(t) == t.task_type = "assignment_work" \/ t.id < k IN
    SumMinutes(SelectSeq(lane.tasks, Before))

\* the urgent exam_build tasks before position k of the input
UrgentBefore(k) ==
    Cardinality({j \in 1..(k - 1) : UrgentExam(scoredTasks[j])})

\* the assignment tasks in the lane
AssignmentsIn(lane) ==
    Cardinality({j \in 1..Len(lane.tasks) :
                    lane.tasks[j].task_type = "assignment_work"})

\* the task at position k is one of the first 5 - n urgent exam_build tasks
IsCandidate(lane, k) ==
    /\ UrgentExam(scoredTasks[k])
    /\ UrgentBefore(k) < LaneCap - AssignmentsIn(lane)

\* the task at position k would have pushed the lane over 1.2 x budget
OverAtMoment(lane, k) ==
    10 * (MomentTotal(lane, k) + scoredTasks[k].estimated_minutes)
        > 12 * lane.targetMinutes

\* C22 as stated: if Due Soon ends with fewer than 5 tasks, every exam_build
\* task with urgencyScore > 50 that is not in Due Soon would have pushed the
\* lane total above 1.2 x budget at the moment it was considered.
C22_OverflowTakesEveryFit ==
    (pc = "done" /\ Len(plan.lanes[1].tasks) < LaneCap) =>
        \A k \in 1..Len(scoredTasks) :
            (UrgentExam(scoredTasks[k]) /\ ~InLane(plan.lanes[1], scoredTasks[k]))
                => OverAtMoment(plan.lanes[1], k)

\* C22 amended: with n assignments in Due Soon, only the first 5 - n urgent
\* exam_build tasks in score order are considered; each of them is in Due Soon
\* exactly when it passed the 1.2 x budget check at its moment, and no later
\* urgent exam_build task is in Due Soon.
C22_OverflowTakesFirstCandidates ==
    pc = "done" =>
        \A k \in 1..Len(scoredTasks) :
            UrgentExam(scoredTasks[k]) =>
                (InLane(plan.lanes[1], scoredTasks[k])
                    <=> (/\ IsCandidate(plan.lanes[1], k)
                         /\ ~OverAtMoment(plan.lanes[1], k)))

\* C22 witness: Due Soon ends with fewer than 5 tasks, a candidate was turned
\* away on budget, and an urgent exam_build task after the candidates that
\* would have fitted was not considered.
C22_Witness ==
    /\ pc = "done"
    /\ Len(plan.lanes[1].tasks) < LaneCap
    /\ \E k \in 1..Len(scoredTasks) :
          /\ IsCandidate(plan.lanes[1], k)
          /\ OverAtMoment(plan.lanes[1], k)
    /\ \E k \in 1..Len(scoredTasks) :
          /\ UrgentExam(scoredTasks[k])
          /\ ~IsCandidate(plan.lanes[1], k)
          /\ ~OverAtMoment(plan.lanes[1], k)
          /\ ~InLane(plan.lanes[1], scoredTasks[k])

----------------------------------------------------------------------------
(* Properties of the lane-filling passes *)

IdsOf(ts) == [i \in 1..Len(ts) |-> ts[i].id]

InSeq(ts, t) == \E i \in 1..Len(ts) : ts[i].id = t.id

\* the tasks of the pool before position j that are among the admitted ones
AdmittedBefore(pool, j, admitted) ==
    LET Taken(t) == InSeq(admitted, t) IN SelectSeq(SubSeq(pool, 1, j - 1), Taken)

\* a pass over the pool, started on a lane with count0 tasks of total0
\* minutes, is first-fit: the task at position j is admitted exactly when the
\* lane then holds fewer than 5 tasks and the task fits on top of what was
\* admitted before it; the admitted tasks are listed in pool order
FirstFit(count0, total0, target, pool, admitted) ==
    /\ \A j \in 1..Len(pool) :
          LET before == AdmittedBefore(pool, j, admitted) IN
          InSeq(admitted, pool[j]) <=>
              /\ count0 + Len(before) < LaneCap
              /\ 10 * (total0 + SumMinutes(before) + pool[j].estimated_minutes)
                    <= 12 * target
    /\ admitted = AdmittedBefore(pool, Len(pool) + 1, admitted)

\* the tasks of the lane of one type
OfType(lane, type) == FilterType(lane.tasks, type)

\* the candidates of the overflow fill
Candidates(lane) ==
    LET Is(t) == IsCandidate(lane, t.id) IN SelectSeq(scoredTasks, Is)

IsPrefix(a, b) == Len(a) <= Len(b) /\ SubSeq(b, 1, Len(a)) = a

\* the four passes of the returned plan are first-fit over their pools
PassesFirstFit ==
    pc = "done" =>
        LET due == plan.lanes[1]
            assigned == OfType(due, "assignment_work")
        IN  /\ FirstFit(0, 0, due.targetMinutes,
                        FilterType(scoredTasks, "assignment_work"), assigned)
            /\ FirstFit(Len(assigned), SumMinutes(assigned), due.targetMinutes,
                        Candidates(due), OfType(due, "exam_build"))
            /\ due.tasks = assigned \o OfType(due, "exam_build")
            /\ FirstFit(0, 0, plan.lanes[2].targetMinutes,
                        sortedExamBuild(examBuildTasks), plan.lanes[2].tasks)
            /\ FirstFit(0, 0, plan.lanes[3].targetMinutes,
                        FilterType(scoredTasks, "timed_practice"),
                        plan.lanes[3].tasks)

\* a step of the allocation only appends to the lanes
LanesOnlyGrow ==
    \A i \in 1..3 : IsPrefix(lanes[i].tasks, lanes'[i].tasks)

\* C23: each lane-filling pass is first-fit without backtracking: a task that
\* would push the lane over 1.2 x budget is skipped and the pass goes on with
\* the next pool task, until the lane holds 5 tasks or the pool is exhausted;
\* an admitted task is never removed and a skipped one is never reconsidered.
C23_FirstFitNoBacktracking == []PassesFirstFit /\ [][LanesOnlyGrow]_vars

\* a pass skipped a task of its pool on budget and admitted a later, smaller
\* task of the pool
SkippedThenAdmitted(pool, admitted) ==
    \E i, j \in 1..Len(pool) :
        /\ i < j
        /\ ~InSeq(admitted, pool[i])
        /\ InSeq(admitted, pool[j])
        /\ pool[j].estimated_minutes < pool[i].estimated_minutes

\* C23 witness: in the returned plan the Exam Build pass skipped a task of its
\* pool on budget and admitted a later, smaller one, and the lane ended with
\* fewer than 5 tasks.
C23_Witness ==
    /\ pc = "done"
    /\ Len(plan.lanes[2].tasks) < LaneCap
    /\ SkippedThenAdmitted(sortedExamBuild(examBuildTasks), plan.lanes[2].tasks)

----------------------------------------------------------------------------
(* Properties of the lanes' members and their order *)

\* the task may be in the lane: Due Soon takes assignment_work tasks and
\* exam_build tasks of urgencyScore above 50, the other lanes their own type
Belongs(i, t) ==
    IF i = 1
    THEN \/ t.task_type = "assignment_work"
         \/ t.task_type = "exam_build" /\ t.urgencyScore > 50 * Scale
    ELSE IF i = 2 THEN t.task_type = "exam_build"
    ELSE t.task_type = "timed_practice"

\* C24: in every plan returned by scheduleTasks the Due Soon lane holds only
\* assignment_work tasks and exam_build tasks with urgencyScore > 50, the Exam
\* Build lane only exam_build tasks and the Timed Practice lane only
\* timed_practice tasks.
C24_LaneMembership ==
    /\ \A i \in 1..3 : \A j \in 1..Len(lanes[i].tasks) :
          Belongs(i, lanes[i].tasks[j])
    /\ pc = "done" =>
          \A i \in 1..3 : \A j \in 1..Len(plan.lanes[i].tasks) :
              Belongs(i, plan.lanes[i].tasks[j])

\* C24 witness: a returned plan with an assignment and an urgent exam_build
\* task in Due Soon, tasks in the other two lanes, and an exam_build task of
\* urgencyScore exactly 50 that stayed out of Due Soon though it would have
\* fitted there.
C24_Witness ==
    /\ pc = "done"
    /\ \E j \in 1..Len(plan.lanes[1].tasks) :
          plan.lanes[1].tasks[j].task_type = "assignment_work"
    /\ \E j \in 1..Len(plan.lanes[1].tasks) :
          plan.lanes[1].tasks[j].task_type = "exam_build"
    /\ Len(plan.lanes[1].tasks) < LaneCap
    /\ plan.lanes[3].tasks # <<>>
    /\ \E j \in 1..Len(plan.lanes[2].tasks) :
          /\ plan.lanes[2].tasks[j].urgencyScore = 50 * Scale
          /\ 10 * (plan.lanes[1].totalMinutes
                     + plan.lanes[2].tasks[j].estimated_minutes)
                <= 12 * plan.lanes[1].targetMinutes

\* the ids of the list increase: the tasks are in input order
InInputOrder(ts) == \A i, j \in 1..Len(ts) : i < j => ts[i].id < ts[j].id

\* non-increasing weaknessBonus, equal ones in input order
ByWeaknessThenInput(ts) ==
    \A i, j \in 1..Len(ts) :
        i < j => \/ ts[i].weaknessBonus > ts[j].weaknessBonus
                 \/ /\ ts[i].weaknessBonus = ts[j].weaknessBonus
                    /\ ts[i].id < ts[j].id

\* the assignments come first, in input order, then the exam_build tasks, in
\* input order
AssignmentsThenOverflow(ts) ==
    /\ ts = FilterType(ts, "assignment_work") \o FilterType(ts, "exam_build")
    /\ InInputOrder(FilterType(ts, "assignment_work"))
    /\ InInputOrder(FilterType(ts, "exam_build"))

\* C25: the Exam Build lane lists its tasks in non-increasing weaknessBonus
\* order, equal ones in input order; the Timed Practice lane lists its tasks in
\* input order; Due Soon lists the assignments in input order followed by the
\* overflow exam_build tasks in input order.
C25_LaneOrder ==
    /\ AssignmentsThenOverflow(lanes[1].tasks)
    /\ ByWeaknessThenInput(lanes[2].tasks)
    /\ InInputOrder(lanes[3].tasks)
    /\ pc = "done" =>
          /\ AssignmentsThenOverflow(plan.lanes[1].tasks)
          /\ ByWeaknessThenInput(plan.lanes[2].tasks)
          /\ InInputOrder(plan.lanes[3].tasks)

\* C25 witness: a returned plan whose Exam Build lane lists a task of higher
\* weaknessBonus before one that came earlier in the input, and two tasks of
\* equal weaknessBonus; Due Soon holds an overflow task that came before an
\* assignment in the input.
C25_Witness ==
    /\ pc = "done"
    /\ \E i, j \in 1..Len(plan.lanes[2].tasks) :
          /\ i < j
          /\ plan.lanes[2].tasks[i].id > plan.lanes[2].tasks[j].id
    /\ \E i, j \in 1..Len(plan.lanes[2].tasks) :
          /\ i < j
          /\ plan.lanes[2].tasks[i].weaknessBonus
                = plan.lanes[2].tasks[j].weaknessBonus
    /\ \E i, j \in 1..Len(plan.lanes[1].tasks) :
          /\ i < j
          /\ plan.lanes[1].tasks[i].id > plan.lanes[1].tasks[j].id

----------------------------------------------------------------------------
(* Properties of validatePlan *)

HasWarning(ws, message) == \E i \in 1..Len(ws) : ws[i].message = message

\* C30: for every plan returned by scheduleTasks, validatePlan does not return
\* the 'Plan exceeds your daily study goal by 50%+' warning, and the plan's
\* totalMinutes is at most 1.5 x the sum of the lanes' targetMinutes.
C30_NeverOverGoal ==
    pc = "validated" =>
        /\ ~HasWarning(ret.warnings, PlanOver)
        /\ 2 * plan.totalMinutes <= 3 * targetTotal(plan)

\* C30 witness: validatePlan has run on a plan whose total is above the sum of
\* the lane targets, two lanes being over their target, and has returned the
\* warning of an empty lane only.
C30_Witness ==
    /\ pc = "validated"
    /\ plan.totalMinutes > targetTotal(plan)
    /\ plan.lanes[1].totalMinutes > plan.lanes[1].targetMinutes
    /\ plan.lanes[2].totalMinutes > plan.lanes[2].targetMinutes
    /\ ret.warnings = <<Warning(LaneEmpty, "timed_practice")>>

----------------------------------------------------------------------------
(* Properties of the arguments of scoreTasks, scheduleTasks, validatePlan *)

----------------------------------------------------------------------------
(* Properties of generateDailyPlan followed by getTodaysPlan *)

\* the lane names of a plan, and the task ids of each lane in order
LaneNames(p) == [i \in 1..Len(p.lanes) |-> p.lanes[i].name]

LaneTaskIds(p) ==
    [i \in 1..Len(p.lanes) |->
        [j \in 1..Len(p.lanes[i].tasks) |-> p.lanes[i].tasks[j].id]]

\* C29: after a successful generateDailyPlan for today, whatever the number of
\* incomplete tasks, a following getTodaysPlan succeeds and returns the same
\* lane names with the same task ids in the same order, and a totalMinutes
\* equal to the sum of the returned lanes' totalMinutes.
C29_PlanReadBack ==
    [][(pc = "done" /\ ret.success) =>
          /\ ret'.success
          /\ LaneNames(ret'.plan) = LaneNames(ret.plan)
          /\ LaneTaskIds(ret'.plan) = LaneTaskIds(ret.plan)
          /\ ret'.plan.totalMinutes = PlanTotal(ret'.plan.lanes)]_vars

----------------------------------------------------------------------------
(* Properties of concurrent logQuestionAttempt calls *)

AllReturned == \A c \in CallIds : Returned(c)

\* C27: once concurrent logQuestionAttempt calls with isCorrect = false for
\* the same unit have all completed, at most one open 'Review: <unit name>'
\* task exists for the unit.
C27_OneReviewTask ==
    (AllReturned /\ \A c \in CallIds : ~calls[c].isCorrect)
        => Cardinality(OpenReviewTasks("u1")) <= 1

\* C28: once concurrent logQuestionAttempt calls for the same unit have all
\* completed, the stored mastery_score of the unit equals calculateUnitMastery
\* over the final tasks and attempts of the unit.
C28_MasteryOfFinalState == AllReturned => MasteryCurrent("u1")

============================================================================
